---- MODULE Spec2Model ----
(***************************************************************************)
(* Model of the LandIS ISO 19139 metadata compliance tools:                *)
(*   check_conformance.py  - the strict, namespace-aware evaluator         *)
(*   extract_metadata.py   - the loose extractor / evaluator               *)
(* A document is a tree of elements (tag, attrib, text, tail, children);   *)
(* text is a TLA+ string handled character by character.                   *)
(***************************************************************************)
EXTENDS Integers, Sequences, FiniteSets, TLC

VARIABLES
    mode,             \* which script runs: "strict" (check_conformance.py) or "loose"
    exists,           \* whether the input folder exists
    files,            \* the *.xml files of the folder, sorted by name
    pc,               \* the position of the script
    idx,              \* the position of the batch loop in files
    results,          \* process_folder: filename -> check name -> status
    errors,           \* process_folder: the skip records
    summary,          \* compute_summary's rows
    all_data,         \* process_all_xml_files: filename -> fields
    all_field_names,  \* process_all_xml_files: the union of the field names
    field_names,      \* sorted_field_names
    compliance,       \* compute_compliance's rows
    report,           \* TRUE once the workbook is saved
    log,              \* the batch-level and per-file messages printed
    call,             \* a direct call of a library function: its name and arguments
    ret,              \* what the call returned, once it has
    registry          \* the module-level tables _CODELISTS and FIELD_OBLIGATION

vars == <<mode, exists, files, pc, idx, results, errors, summary,
          all_data, all_field_names, field_names, compliance, report, log,
          call, ret, registry>>

\* no library function is called directly while a script runs
NoCall == [fn |-> "none"]

\* the call has not returned
Pending == [done |-> FALSE]

\* the call returned value
Returned(value) == [done |-> TRUE, value |-> value]

(***************************************************************************)
(* Strings                                                                 *)
(***************************************************************************)
\* the i-th character of s, as a one-character string
CharAt(s, i) == SubSeq(s, i, i)

\* str.isspace() for one character
IsSpace(c) == c \in {" ", "\t", "\n", "\r"}

RECURSIVE LStrip(_)
\* str.lstrip()
LStrip(s) ==
    IF Len(s) = 0 THEN s
    ELSE IF IsSpace(CharAt(s, 1)) THEN LStrip(SubSeq(s, 2, Len(s)))
    ELSE s

RECURSIVE RStrip(_)
\* str.rstrip()
RStrip(s) ==
    IF Len(s) = 0 THEN s
    ELSE IF IsSpace(CharAt(s, Len(s))) THEN RStrip(SubSeq(s, 1, Len(s) - 1))
    ELSE s

\* str.strip()
Strip(s) == RStrip(LStrip(s))

RECURSIVE Join(_, _)
\* sep.join(parts)
Join(sep, parts) ==
    IF Len(parts) = 0 THEN ""
    ELSE IF Len(parts) = 1 THEN parts[1]
    ELSE parts[1] \o sep \o Join(sep, Tail(parts))

\* the characters of the model's texts in code point order
CharOrder == "\t\n\r !\"#$%&'()*+,-./0123456789:;<=>?@ABCDEFGHIJKLMNOPQRSTUVWXYZ[]^_abcdefghijklmnopqrstuvwxyz{|}~"

\* ord(c), as the position of c in CharOrder
OrdTable ==
    [c \in {CharAt(CharOrder, i) : i \in 1..Len(CharOrder)} |->
        CHOOSE i \in 1..Len(CharOrder) : CharAt(CharOrder, i) = c]

Ord(c) == OrdTable[c]

RECURSIVE StrLess(_, _)
\* a < b for Python str (lexicographic by code point)
StrLess(a, b) ==
    IF Len(b) = 0 THEN FALSE
    ELSE IF Len(a) = 0 THEN TRUE
    ELSE IF CharAt(a, 1) = CharAt(b, 1)
         THEN StrLess(SubSeq(a, 2, Len(a)), SubSeq(b, 2, Len(b)))
         ELSE Ord(CharAt(a, 1)) < Ord(CharAt(b, 1))

\* sorted(S) for a finite set of strings
Sorted(S) ==
    LET rank == [x \in S |-> Cardinality({y \in S : StrLess(y, x)})]
    IN  [i \in 1..Cardinality(S) |-> CHOOSE x \in S : rank[x] = i - 1]

\* the set of elements of a sequence
Range(s) == {s[i] : i \in 1..Len(s)}

(***************************************************************************)
(* xml.etree.ElementTree elements                                          *)
(***************************************************************************)
\* Python None for an element
None == [tag |-> "#None"]

\* Element with attributes (attrib is a sequence of <<name, value>> pairs)
ElemA(tag, attrib, text, kids, tail) ==
    [tag |-> tag, attrib |-> attrib, text |-> text, kids |-> kids, tail |-> tail]

\* Element without attributes or tail
Elem(tag, text, kids) == ElemA(tag, <<>>, text, kids, "")

RECURSIVE Descendants(_)
\* Element.iter() without the element itself: all descendants, document order
Descendants(el) ==
    LET RECURSIVE Walk(_)
        Walk(ks) == IF Len(ks) = 0 THEN <<>>
                    ELSE <<Head(ks)>> \o Descendants(Head(ks)) \o Walk(Tail(ks))
    IN  Walk(el.kids)

\* the children of el with the given tag, document order
ChildrenTagged(el, tag) == SelectSeq(el.kids, LAMBDA k : k.tag = tag)

RECURSIVE ChildStep(_, _)
\* one "/tag" step of ElementPath applied to a sequence of context nodes
ChildStep(nodes, tag) ==
    IF Len(nodes) = 0 THEN <<>>
    ELSE ChildrenTagged(Head(nodes), tag) \o ChildStep(Tail(nodes), tag)

RECURSIVE ChildSteps(_, _)
\* the remaining "/a/b/..." steps of an ElementPath expression
ChildSteps(nodes, tags) ==
    IF Len(tags) = 0 THEN nodes
    ELSE ChildSteps(ChildStep(nodes, Head(tags)), Tail(tags))

\* Element.findall(path); path = [desc |-> BOOLEAN, steps |-> <<tag, ...>>]
\* stands for "a/b" (desc FALSE) or ".//a/b" (desc TRUE)
FindAll(el, path) ==
    LET first == IF path.desc
                 THEN SelectSeq(Descendants(el), LAMBDA d : d.tag = Head(path.steps))
                 ELSE ChildrenTagged(el, Head(path.steps))
    IN  ChildSteps(first, Tail(path.steps))

\* Element.find(path): the first match or None
Find(el, path) ==
    LET all == FindAll(el, path)
    IN  IF Len(all) = 0 THEN None ELSE all[1]

\* "tag": a direct child
P(tag) == [desc |-> FALSE, steps |-> <<tag>>]
\* ".//a/b/...": a descendant search followed by child steps
D(steps) == [desc |-> TRUE, steps |-> steps]

(***************************************************************************)
(* check_conformance.py: path locator and text                             *)
(***************************************************************************)
GMD == "http://www.isotc211.org/2005/gmd"
GCO == "http://www.isotc211.org/2005/gco"

_tag(ns, local) == "{" \o ns \o "}" \o local

\* _find that goes on with a later sibling when the first match of a step
\* has no match for the steps after it
_find_backtracking(root, path) ==
    IF Len(path) = 0 THEN root
    ELSE IF root = None THEN None
    ELSE LET all == ChildSteps(<<root>>, [k \in 1..Len(path) |-> _tag(path[k][1], path[k][2])])
         IN  IF Len(all) = 0 THEN None ELSE all[1]

RECURSIVE _find(_, _)
_find(root, path) ==
    IF Len(path) = 0 THEN root
    ELSE IF root = None THEN None
    ELSE _find(Find(root, P(_tag(path[1][1], path[1][2]))), Tail(path))

RECURSIVE _find_any(_, _)
_find_any(root, paths) ==
    IF Len(paths) = 0 THEN None
    ELSE LET el == _find(root, Head(paths))
         IN  IF el # None THEN el ELSE _find_any(root, Tail(paths))

RECURSIVE _get_text(_)
_get_text(element) ==
    IF element = None THEN ""
    ELSE LET RECURSIVE Parts(_)
             Parts(ks) ==
                IF Len(ks) = 0 THEN <<>>
                ELSE <<_get_text(Head(ks))>>
                     \o (IF Head(ks).tail # "" THEN <<Head(ks).tail>> ELSE <<>>)
                     \o Parts(Tail(ks))
             parts == (IF element.text # "" THEN <<element.text>> ELSE <<>>)
                      \o Parts(element.kids)
         IN  Strip(Join(" ", parts))

_has_value(element) == IF element # None THEN _get_text(element) # "" ELSE FALSE

(***************************************************************************)
(* check_conformance.py: the finders                                       *)
(***************************************************************************)
_check_single(paths, root) ==
    LET el == _find_any(root, paths)
    IN  IF el = None THEN "Absent"
        ELSE IF _has_value(el) THEN "Present" ELSE "Empty"

\* the four components of the bounding box, in the order they are tested
BBoxComps == <<"westBoundLongitude", "eastBoundLongitude",
               "southBoundLatitude", "northBoundLatitude">>

\* the path of the bounding-box container
BBoxBase == << <<GMD, "identificationInfo">>, <<GMD, "MD_DataIdentification">>,
               <<GMD, "extent">>, <<GMD, "EX_Extent">>,
               <<GMD, "geographicElement">>, <<GMD, "EX_GeographicBoundingBox">> >>

_check_bbox(root) ==
    LET RECURSIVE Loop(_)
        Loop(comps) ==
            IF Len(comps) = 0 THEN "Present"
            ELSE LET el == _find(root, BBoxBase \o << <<GMD, Head(comps)>> >>)
                 IN  IF el = None \/ ~_has_value(el)
                     THEN (IF el = None THEN "Absent" ELSE "Empty")
                     ELSE Loop(Tail(comps))
    IN  Loop(BBoxComps)

\* identificationInfo/MD_DataIdentification, the start of the searching finders
IdInfoPath == << <<GMD, "identificationInfo">>, <<GMD, "MD_DataIdentification">> >>

\* TRUE iff some element of the sequence has a value
AnyHasValue(nodes) == \E i \in 1..Len(nodes) : _has_value(nodes[i])

_check_keywords(root) ==
    LET id_info == _find(root, IdInfoPath)
    IN  IF id_info = None THEN "Absent"
        ELSE LET conts == FindAll(id_info, D(<<_tag(GMD, "descriptiveKeywords")>>))
             IN  IF \E i \in 1..Len(conts) :
                        AnyHasValue(FindAll(conts[i], D(<<_tag(GMD, "keyword")>>)))
                 THEN "Present" ELSE "Empty"

_check_use_limitation(root) ==
    LET id_info == _find(root, IdInfoPath)
    IN  IF id_info = None THEN "Absent"
        ELSE IF AnyHasValue(FindAll(id_info, D(<<_tag(GMD, "useLimitation")>>)))
        THEN "Present"
        ELSE IF Find(id_info, D(<<_tag(GMD, "useLimitation")>>)) # None
        THEN "Empty" ELSE "Absent"

_check_access_constraints(root) ==
    LET id_info == _find(root, IdInfoPath)
    IN  IF id_info = None THEN "Absent"
        ELSE LET ac == Find(id_info, D(<<_tag(GMD, "MD_LegalConstraints"),
                                         _tag(GMD, "accessConstraints")>>))
                 restrict == Find(id_info, D(<<_tag(GMD, "accessConstraints")>>))
             IN  IF ac # None /\ _has_value(ac) THEN "Present"
                 ELSE IF restrict # None /\ _has_value(restrict) THEN "Present"
                 ELSE IF ac # None \/ restrict # None THEN "Empty" ELSE "Absent"

_check_other_constraints(root) ==
    LET id_info == _find(root, IdInfoPath)
    IN  IF id_info = None THEN "Absent"
        ELSE LET other == Find(id_info, D(<<_tag(GMD, "otherConstraints")>>))
             IN  IF other = None THEN "Absent"
                 ELSE IF _has_value(other) THEN "Present" ELSE "Empty"

_check_distribution_linkage(root) ==
    LET dist == _find(root, << <<GMD, "distributionInfo">>, <<GMD, "MD_Distribution">> >>)
    IN  IF dist = None THEN "Absent"
        ELSE LET on_lines == FindAll(dist, D(<<_tag(GMD, "onLine")>>))
                 Linked(on_line) ==
                    LET res == Find(on_line, P(_tag(GMD, "CI_OnlineResource")))
                    IN  IF res = None THEN FALSE
                        ELSE LET linkage == Find(res, P(_tag(GMD, "linkage")))
                             IN  linkage # None /\ _has_value(linkage)
             IN  IF \E i \in 1..Len(on_lines) : Linked(on_lines[i]) THEN "Present"
                 ELSE IF Find(dist, D(<<_tag(GMD, "linkage")>>)) # None
                 THEN "Empty" ELSE "Absent"

\* a check of the catalog that follows one fixed path
Single(name, obligation, locals) ==
    [name |-> name, obligation |-> obligation, finder |-> "single",
     paths |-> << [i \in 1..Len(locals) |-> <<GMD, locals[i]>>] >>]

\* a check of the catalog with a finder of its own
Custom(name, obligation, finder) ==
    [name |-> name, obligation |-> obligation, finder |-> finder, paths |-> <<>>]

\* the (name, obligation, finder) list
_conformance_checks ==
    LET id == <<"identificationInfo", "MD_DataIdentification">>
        ct == <<"contact", "CI_ResponsibleParty">>
        dq == <<"dataQualityInfo", "DQ_DataQuality">>
        cr == dq \o <<"report", "DQ_DomainConsistency", "result", "DQ_ConformanceResult">>
        rs == <<"referenceSystemInfo", "MD_ReferenceSystem",
                "referenceSystemIdentifier", "RS_Identifier">>
    IN <<
      Single("Resource Title", "mandatory", id \o <<"citation", "CI_Citation", "title">>),
      Single("Abstract", "mandatory", id \o <<"abstract">>),
      Single("Topic Category", "mandatory", id \o <<"topicCategory", "MD_TopicCategoryCode">>),
      Custom("Keywords", "mandatory", "keywords"),
      Custom("Geographic bounding box", "mandatory", "bbox"),
      Single("Data Language", "mandatory", id \o <<"language">>),
      Single("Scale Denominator", "mandatory",
             id \o <<"spatialResolution", "MD_Resolution", "equivalentScale",
                     "MD_RepresentativeFraction", "denominator">>),
      Single("Contact Organisation Name", "mandatory", ct \o <<"organisationName">>),
      Single("Contact Email Address", "mandatory",
             ct \o <<"contactInfo", "CI_Contact", "address", "CI_Address",
                     "electronicMailAddress">>),
      Single("Contact Role", "mandatory", ct \o <<"role">>),
      Custom("Distribution Online Resource Linkage", "mandatory", "distribution_linkage"),
      Single("Lineage Statement", "mandatory", dq \o <<"lineage", "LI_Lineage", "statement">>),
      Single("Data Quality Scope Level", "mandatory", dq \o <<"scope", "DQ_Scope", "level">>),
      Single("Conformance Specification Title", "mandatory",
             cr \o <<"specification", "CI_Citation", "title">>),
      Single("Conformance Pass", "mandatory", cr \o <<"pass">>),
      Single("Metadata Language Code", "mandatory", <<"language">>),
      Single("Metadata Date Stamp", "mandatory", <<"dateStamp">>),
      Single("Metadata Scope Code", "mandatory", <<"hierarchyLevel">>),
      Custom("Access Constraints", "mandatory", "access_constraints"),
      Custom("Other Constraints", "mandatory", "other_constraints"),
      Custom("Use Limitation", "mandatory", "use_limitation"),
      Single("Publication Date", "conditional",
             id \o <<"citation", "CI_Citation", "date", "CI_Date", "date">>),
      Single("Reference System Code", "conditional", rs \o <<"code">>),
      Single("Reference System Code Space", "conditional", rs \o <<"codeSpace">>),
      Single("File Identifier", "optional", <<"fileIdentifier">>),
      Single("Metadata Standard Name", "optional", <<"metadataStandardName">>),
      Single("Metadata Standard Version", "optional", <<"metadataStandardVersion">>),
      Single("Purpose", "optional", id \o <<"purpose">>),
      Single("Credit", "optional", id \o <<"credit">>),
      Single("Status", "optional", id \o <<"status">>),
      Single("Maintenance Frequency", "optional",
             id \o <<"resourceMaintenance", "MD_MaintenanceInformation",
                     "maintenanceAndUpdateFrequency">>),
      Single("Graphic Overview", "optional",
             id \o <<"graphicOverview", "MD_BrowseGraphic", "fileName">>)
    >>

\* finder(root): the call of a catalog entry's finder
Finder(check, root) ==
    CASE check.finder = "single" -> _check_single(check.paths, root)
      [] check.finder = "keywords" -> _check_keywords(root)
      [] check.finder = "bbox" -> _check_bbox(root)
      [] check.finder = "distribution_linkage" -> _check_distribution_linkage(root)
      [] check.finder = "access_constraints" -> _check_access_constraints(root)
      [] check.finder = "other_constraints" -> _check_other_constraints(root)
      [] check.finder = "use_limitation" -> _check_use_limitation(root)

(***************************************************************************)
(* check_conformance.py: one file, the folder, the summary                 *)
(***************************************************************************)
\* dict.get(key) with Python None written "None"
Get(d, key) == IF key \in DOMAIN d THEN d[key] ELSE "None"

\* the empty dict
EmptyDict == [k \in {} |-> "None"]

\* d[key] = value
Put(d, key, value) == (key :> value) @@ d

\* ET.parse(path).getroot(): the root, or the exception the parser raises.
\* A malformed document raises ET.ParseError; a document that declares a
\* multi-byte or unknown encoding raises ValueError or LookupError instead.
ET_parse(content) ==
    CASE content.kind = "xml" -> [exc |-> "", root |-> content.root]
      [] content.kind = "malformed" -> [exc |-> "ParseError", root |-> None]
      [] content.kind = "undecodable" -> [exc |-> "ValueError", root |-> None]

\* check_one_file without the test of the root tag
check_one_file_any_root(file, checks) ==
    LET parsed == ET_parse(file.content)
        root == parsed.root
    IN  IF parsed.exc = "ParseError" THEN [kind |-> "None", row |-> EmptyDict]
        ELSE IF parsed.exc # "" THEN [kind |-> "raise", row |-> EmptyDict]
        ELSE [kind |-> "row",
              row |-> [name \in {checks[k].name : k \in 1..Len(checks)} |->
                          IF name \in file.raises THEN "Absent"
                          ELSE Finder(CHOOSE c \in Range(checks) : c.name = name, root)]]

\* check_one_file without the handler around finder(root)
check_one_file_no_handler(file, checks) ==
    LET parsed == ET_parse(file.content)
        root == parsed.root
    IN  IF parsed.exc = "ParseError" THEN [kind |-> "None", row |-> EmptyDict]
        ELSE IF parsed.exc # "" THEN [kind |-> "raise", row |-> EmptyDict]
        ELSE IF root.tag # _tag(GMD, "MD_Metadata")
        THEN [kind |-> "None", row |-> EmptyDict]
        ELSE IF \E k \in 1..Len(checks) : checks[k].name \in file.raises
        THEN [kind |-> "raise", row |-> EmptyDict]
        ELSE [kind |-> "row",
              row |-> [name \in {checks[k].name : k \in 1..Len(checks)} |->
                          Finder(CHOOSE c \in Range(checks) : c.name = name, root)]]

\* check_one_file(xml_path, checks): [kind |-> "row", row |-> dict],
\* [kind |-> "None"], or [kind |-> "raise"] for an exception it lets through.
\* file.raises names the checks whose finder raises on this file.  The loop
\* assigns results[name] once per check; the last check of a name stays.
check_one_file(file, checks) ==
    LET parsed == ET_parse(file.content)
        root == parsed.root
        Last(name) == CHOOSE k \in 1..Len(checks) :
                         /\ checks[k].name = name
                         /\ \A j \in 1..Len(checks) : checks[j].name = name => j <= k
        res == [name \in {checks[k].name : k \in 1..Len(checks)} |->
                    IF name \in file.raises
                    THEN "Absent"
                    ELSE Finder(checks[Last(name)], root)]
    IN  IF parsed.exc = "ParseError" THEN [kind |-> "None", row |-> EmptyDict]
        ELSE IF parsed.exc # "" THEN [kind |-> "raise", row |-> EmptyDict]
        ELSE IF root.tag # _tag(GMD, "MD_Metadata")
        THEN [kind |-> "None", row |-> EmptyDict]
        ELSE [kind |-> "row", row |-> res]

\* the reason process_folder records for a skipped file
SkipReason == "Not ISO 19139 namespaced (root is not gmd:MD_Metadata)"

\* the number of elements of seq that satisfy Test
Count(seq, Test(_)) == Len(SelectSeq(seq, Test))

\* compute_summary that counts only Absent as missing
compute_summary_absent_only(res, checks) ==
    LET mandatory == SelectSeq(checks, LAMBDA c : c.obligation = "mandatory")
        names == Sorted(DOMAIN res)
        RowOf(filename) ==
            LET row == res[filename]
                missing == SelectSeq(mandatory, LAMBDA c : Get(row, c.name) = "Absent")
                missing_names == [i \in 1..Len(missing) |-> missing[i].name]
            IN  [Filename |-> filename,
                 Conformant |-> IF Len(missing) = 0 THEN "Yes" ELSE "No",
                 MissingMandatory |-> IF Len(missing) # 0
                                      THEN Join(", ", missing_names) ELSE "",
                 MissingCount |-> Len(missing),
                 PresentMandatory |->
                     Count(mandatory, LAMBDA c : Get(row, c.name) = "Present"),
                 PresentConditional |->
                     Count(checks, LAMBDA c : c.obligation = "conditional"
                                              /\ Get(row, c.name) = "Present"),
                 PresentOptional |->
                     Count(checks, LAMBDA c : c.obligation = "optional"
                                              /\ Get(row, c.name) = "Present")]
    IN  [i \in 1..Len(names) |-> RowOf(names[i])]

\* compute_summary that counts the Present checks of every obligation as
\* present mandatory
compute_summary_counts_all(res, checks) ==
    LET mandatory == SelectSeq(checks, LAMBDA c : c.obligation = "mandatory")
        names == Sorted(DOMAIN res)
        RowOf(filename) ==
            LET row == res[filename]
                missing == SelectSeq(mandatory, LAMBDA c : Get(row, c.name) # "Present")
                missing_names == [i \in 1..Len(missing) |-> missing[i].name]
                conformant == Len(missing) = 0
            IN  [Filename |-> filename,
                 Conformant |-> IF conformant THEN "Yes" ELSE "No",
                 MissingMandatory |-> IF Len(missing) # 0
                                      THEN Join(", ", missing_names) ELSE "",
                 MissingCount |-> Len(missing),
                 PresentMandatory |->
                     Count(checks, LAMBDA c : Get(row, c.name) = "Present"),
                 PresentConditional |->
                     Count(checks, LAMBDA c : c.obligation = "conditional"
                                              /\ Get(row, c.name) = "Present"),
                 PresentOptional |->
                     Count(checks, LAMBDA c : c.obligation = "optional"
                                              /\ Get(row, c.name) = "Present")]
    IN  [i \in 1..Len(names) |-> RowOf(names[i])]

\* compute_summary that lists the missing checks in alphabetical order
compute_summary_alphabetical(res, checks) ==
    LET mandatory == SelectSeq(checks, LAMBDA c : c.obligation = "mandatory")
        names == Sorted(DOMAIN res)
        RowOf(filename) ==
            LET row == res[filename]
                missing == SelectSeq(mandatory, LAMBDA c : Get(row, c.name) # "Present")
                missing_names == Sorted({missing[i].name : i \in 1..Len(missing)})
                conformant == Len(missing) = 0
            IN  [Filename |-> filename,
                 Conformant |-> IF conformant THEN "Yes" ELSE "No",
                 MissingMandatory |-> IF Len(missing) # 0
                                      THEN Join(", ", missing_names) ELSE "",
                 MissingCount |-> Len(missing),
                 PresentMandatory |->
                     Count(mandatory, LAMBDA c : Get(row, c.name) = "Present"),
                 PresentConditional |->
                     Count(checks, LAMBDA c : c.obligation = "conditional"
                                              /\ Get(row, c.name) = "Present"),
                 PresentOptional |->
                     Count(checks, LAMBDA c : c.obligation = "optional"
                                              /\ Get(row, c.name) = "Present")]
    IN  [i \in 1..Len(names) |-> RowOf(names[i])]

\* compute_summary(results, checks): one row per file, sorted by filename
compute_summary(res, checks) ==
    LET mandatory == SelectSeq(checks, LAMBDA c : c.obligation = "mandatory")
        names == Sorted(DOMAIN res)
        RowOf(filename) ==
            LET row == res[filename]
                missing == SelectSeq(mandatory, LAMBDA c : Get(row, c.name) # "Present")
                missing_names == [i \in 1..Len(missing) |-> missing[i].name]
                conformant == Len(missing) = 0
            IN  [Filename |-> filename,
                 Conformant |-> IF conformant THEN "Yes" ELSE "No",
                 MissingMandatory |-> IF Len(missing) # 0
                                      THEN Join(", ", missing_names) ELSE "",
                 MissingCount |-> Len(missing),
                 PresentMandatory |->
                     Count(mandatory, LAMBDA c : Get(row, c.name) = "Present"),
                 PresentConditional |->
                     Count(checks, LAMBDA c : c.obligation = "conditional"
                                              /\ Get(row, c.name) = "Present"),
                 PresentOptional |->
                     Count(checks, LAMBDA c : c.obligation = "optional"
                                              /\ Get(row, c.name) = "Present")]
    IN  [i \in 1..Len(names) |-> RowOf(names[i])]

(***************************************************************************)
(* Documents of the two dialects                                           *)
(***************************************************************************)
\* a gmd element without text
G(local, kids) == Elem(_tag(GMD, local), "", kids)

\* a gmd property holding one gco value element
GV(local, gcoType, text) ==
    Elem(_tag(GMD, local), "", <<Elem(_tag(GCO, gcoType), text, <<>>)>>)

\* a gmd property holding one gmd code element with text and codeListValue
GC(local, codeType, text) ==
    Elem(_tag(GMD, local), "",
         <<ElemA(_tag(GMD, codeType), << <<"codeListValue", text>> >>, text, <<>>, "")>>)

\* a standard-namespaced document in which every check of the catalog is Present
FullGmd ==
    G("MD_Metadata", <<
      GV("fileIdentifier", "CharacterString", "id-1"),
      GV("language", "CharacterString", "eng"),
      GC("hierarchyLevel", "MD_ScopeCode", "dataset"),
      G("contact", << G("CI_ResponsibleParty", <<
          GV("organisationName", "CharacterString", "Cranfield"),
          G("contactInfo", << G("CI_Contact", << G("address", << G("CI_Address", <<
              GV("electronicMailAddress", "CharacterString", "a@b.uk") >>) >>) >>) >>),
          GC("role", "CI_RoleCode", "pointOfContact") >>) >>),
      GV("dateStamp", "Date", "2026-01-01"),
      GV("metadataStandardName", "CharacterString", "ISO 19115"),
      GV("metadataStandardVersion", "CharacterString", "2003"),
      G("referenceSystemInfo", << G("MD_ReferenceSystem", <<
          G("referenceSystemIdentifier", << G("RS_Identifier", <<
              GV("code", "CharacterString", "27700"),
              GV("codeSpace", "CharacterString", "EPSG") >>) >>) >>) >>),
      G("identificationInfo", << G("MD_DataIdentification", <<
          G("citation", << G("CI_Citation", <<
              GV("title", "CharacterString", "Soil map"),
              G("date", << G("CI_Date", << GV("date", "Date", "2020") >>) >>) >>) >>),
          GV("abstract", "CharacterString", "Soils"),
          GV("purpose", "CharacterString", "Planning"),
          GV("credit", "CharacterString", "LandIS"),
          GC("status", "MD_ProgressCode", "completed"),
          G("resourceMaintenance", << G("MD_MaintenanceInformation", <<
              GC("maintenanceAndUpdateFrequency", "MD_MaintenanceFrequencyCode",
                 "asNeeded") >>) >>),
          G("graphicOverview", << G("MD_BrowseGraphic", <<
              GV("fileName", "CharacterString", "t.png") >>) >>),
          G("descriptiveKeywords", << G("MD_Keywords", <<
              GV("keyword", "CharacterString", "Soil"),
              GV("keyword", "CharacterString", "England") >>) >>),
          G("resourceConstraints", << G("MD_Constraints", <<
              GV("useLimitation", "CharacterString", "None") >>) >>),
          G("resourceConstraints", << G("MD_LegalConstraints", <<
              GC("accessConstraints", "MD_RestrictionCode", "license"),
              GV("otherConstraints", "CharacterString", "OGL") >>) >>),
          G("spatialResolution", << G("MD_Resolution", << G("equivalentScale", <<
              G("MD_RepresentativeFraction", <<
                  GV("denominator", "Integer", "250000") >>) >>) >>) >>),
          GV("language", "CharacterString", "eng"),
          G("topicCategory", <<
              Elem(_tag(GMD, "MD_TopicCategoryCode"), "geoscientificInformation", <<>>) >>),
          G("extent", << G("EX_Extent", << G("geographicElement", <<
              G("EX_GeographicBoundingBox", <<
                  GV("westBoundLongitude", "Decimal", "-6"),
                  GV("eastBoundLongitude", "Decimal", "2"),
                  GV("southBoundLatitude", "Decimal", "49"),
                  GV("northBoundLatitude", "Decimal", "56") >>) >>) >>) >>)
        >>) >>),
      G("distributionInfo", << G("MD_Distribution", << G("transferOptions", <<
          G("MD_DigitalTransferOptions", << G("onLine", << G("CI_OnlineResource", <<
              GV("linkage", "URL", "http://l.uk") >>) >>) >>) >>) >>) >>),
      G("dataQualityInfo", << G("DQ_DataQuality", <<
          G("scope", << G("DQ_Scope", << GC("level", "MD_ScopeCode", "dataset") >>) >>),
          G("report", << G("DQ_DomainConsistency", << G("result", <<
              G("DQ_ConformanceResult", <<
                  G("specification", << G("CI_Citation", <<
                      GV("title", "CharacterString", "INSPIRE") >>) >>),
                  GV("pass", "Boolean", "true") >>) >>) >>) >>),
          G("lineage", << G("LI_Lineage", <<
              GV("statement", "CharacterString", "Surveyed") >>) >>) >>) >>)
    >>)

RECURSIVE ClearText(_)
\* the element with every text and tail of its subtree emptied
ClearText(el) ==
    [el EXCEPT !.text = "", !.tail = "",
               !.kids = [i \in 1..Len(el.kids) |-> ClearText(el.kids[i])]]

RECURSIVE RemoveAt(_, _)
\* the element without the nodes that the path of tags reaches
RemoveAt(el, tags) ==
    IF Len(tags) = 1
    THEN [el EXCEPT !.kids = SelectSeq(el.kids, LAMBDA k : k.tag # tags[1])]
    ELSE [el EXCEPT !.kids = [i \in 1..Len(el.kids) |->
                                IF el.kids[i].tag = tags[1]
                                THEN RemoveAt(el.kids[i], Tail(tags))
                                ELSE el.kids[i]]]

RECURSIVE BlankAt(_, _)
\* the element with the text emptied below the nodes that the path reaches
BlankAt(el, tags) ==
    IF Len(tags) = 0 THEN ClearText(el)
    ELSE [el EXCEPT !.kids = [i \in 1..Len(el.kids) |->
                                IF el.kids[i].tag = tags[1]
                                THEN BlankAt(el.kids[i], Tail(tags))
                                ELSE el.kids[i]]]

\* a path of gmd tags
GPath(locals) == [i \in 1..Len(locals) |-> _tag(GMD, locals[i])]

\* the tags of a catalog path
PathTags(path) == [i \in 1..Len(path) |-> _tag(path[i][1], path[i][2])]

(***************************************************************************)
(* extract_metadata.py: text                                               *)
(***************************************************************************)
\* TRUE iff s starts with prefix
StartsWith(s, prefix) ==
    Len(s) >= Len(prefix) /\ SubSeq(s, 1, Len(prefix)) = prefix

\* s without its first n characters
Drop(s, n) == SubSeq(s, n + 1, Len(s))

\* the position of the first occurrence of character c in s, 0 if none
IndexOf(s, c) ==
    IF \E i \in 1..Len(s) : CharAt(s, i) = c
    THEN CHOOSE i \in 1..Len(s) :
            CharAt(s, i) = c /\ \A j \in 1..(i - 1) : CharAt(s, j) # c
    ELSE 0

\* the named character references the model's texts use, longest name first
HtmlEntities == << <<"quot", "\"">>, <<"amp", "&">>, <<"lt", "<">>, <<"gt", ">">> >>

RECURSIVE html_unescape(_)
\* html.unescape(text): a reference is replaced with or without its ';'
html_unescape(s) ==
    IF Len(s) = 0 THEN ""
    ELSE IF CharAt(s, 1) = "&"
              /\ \E k \in 1..Len(HtmlEntities) : StartsWith(Drop(s, 1), HtmlEntities[k][1])
         THEN LET k == CHOOSE k \in 1..Len(HtmlEntities) :
                          StartsWith(Drop(s, 1), HtmlEntities[k][1])
                  rest == Drop(s, 1 + Len(HtmlEntities[k][1]))
              IN  HtmlEntities[k][2]
                  \o html_unescape(IF StartsWith(rest, ";") THEN Drop(rest, 1) ELSE rest)
         ELSE CharAt(s, 1) \o html_unescape(Drop(s, 1))

RECURSIVE RemoveTags(_)
\* re.sub(r'<[^>]+>', '', text)
RemoveTags(s) ==
    IF Len(s) = 0 THEN ""
    ELSE IF CharAt(s, 1) = "<" /\ IndexOf(Drop(s, 1), ">") >= 2
         THEN RemoveTags(Drop(s, 1 + IndexOf(Drop(s, 1), ">")))
         ELSE CharAt(s, 1) \o RemoveTags(Drop(s, 1))

RECURSIVE Split(_)
\* str.split(): the maximal runs of non-whitespace characters
Split(s) ==
    LET t == LStrip(s)
        RECURSIVE WordLen(_)
        WordLen(k) == IF k < Len(t) /\ ~IsSpace(CharAt(t, k + 1))
                      THEN WordLen(k + 1) ELSE k
    IN  IF Len(t) = 0 THEN <<>>
        ELSE <<SubSeq(t, 1, WordLen(1))>> \o Split(Drop(t, WordLen(1)))

\* clean_text(text), with None written ""
clean_text(text) == Strip(Join(" ", Split(RemoveTags(html_unescape(text)))))

\* get_text(element, default="")
get_text(element) ==
    IF element = None THEN ""
    ELSE IF element.text # "" THEN clean_text(element.text)
    ELSE LET RECURSIVE Parts(_)
             Parts(ks) ==
                IF Len(ks) = 0 THEN <<>>
                ELSE (IF Head(ks).text # "" THEN <<Strip(Head(ks).text)>> ELSE <<>>)
                     \o (IF Head(ks).tail # "" THEN <<Strip(Head(ks).tail)>> ELSE <<>>)
                     \o Parts(Tail(ks))
         IN  clean_text(Join(" ", Parts(element.kids)))

\* element.get(attr_name, default)
AttrGet(element, attr_name, default) ==
    IF \E i \in 1..Len(element.attrib) : element.attrib[i][1] = attr_name
    THEN element.attrib[CHOOSE i \in 1..Len(element.attrib) :
                            element.attrib[i][1] = attr_name][2]
    ELSE default

\* get_attribute_value(element, attr_name, default="")
get_attribute_value(element, attr_name) ==
    IF element = None THEN "" ELSE AttrGet(element, attr_name, "")

(***************************************************************************)
(* extract_metadata.py: obligation table and codelist registry             *)
(***************************************************************************)
\* the obligation of each known field name
FIELD_OBLIGATION ==
       ("Resource Title" :> "mandatory")
    @@ ("Abstract" :> "mandatory")
    @@ ("Topic Category" :> "mandatory")
    @@ ("Keywords" :> "mandatory")
    @@ ("Geographic West Bounding Longitude" :> "mandatory")
    @@ ("Geographic East Bounding Longitude" :> "mandatory")
    @@ ("Geographic North Bounding Latitude" :> "mandatory")
    @@ ("Geographic South Bounding Latitude" :> "mandatory")
    @@ ("Data Language" :> "mandatory")
    @@ ("Scale Denominator" :> "mandatory")
    @@ ("Contact Organisation Name" :> "mandatory")
    @@ ("Contact Email Address" :> "mandatory")
    @@ ("Contact Role" :> "mandatory")
    @@ ("Distribution Online Resource Linkage" :> "mandatory")
    @@ ("Lineage Statement" :> "mandatory")
    @@ ("Data Quality Scope Level" :> "mandatory")
    @@ ("Metadata Language Code" :> "mandatory")
    @@ ("Metadata Date Stamp" :> "mandatory")
    @@ ("Metadata Scope Code" :> "mandatory")
    @@ ("Access Constraints" :> "mandatory")
    @@ ("Conformance Specification Title" :> "mandatory")
    @@ ("Conformance Pass" :> "mandatory")
    @@ ("Publication Date" :> "conditional")
    @@ ("Reference System Code" :> "conditional")
    @@ ("Reference System Code Space" :> "conditional")
    @@ ("Other Constraints" :> "mandatory")
    @@ ("Use Limitation" :> "mandatory")

UpperChars == "ABCDEFGHIJKLMNOPQRSTUVWXYZ"
LowerChars == "abcdefghijklmnopqrstuvwxyz"
Digits == "0123456789"

\* c.isupper() for one character
IsUpper(c) == IndexOf(UpperChars, c) # 0

\* c.lower() for one character
LowerChar(c) == IF IsUpper(c) THEN CharAt(LowerChars, IndexOf(UpperChars, c)) ELSE c

\* c.upper() for one character
UpperChar(c) ==
    IF IndexOf(LowerChars, c) # 0 THEN CharAt(UpperChars, IndexOf(LowerChars, c)) ELSE c

RECURSIVE Lower(_)
\* str.lower()
Lower(s) == IF Len(s) = 0 THEN "" ELSE LowerChar(CharAt(s, 1)) \o Lower(Drop(s, 1))

RECURSIVE RemoveChars(_, _)
\* re.sub(r"[...]", "", s) for a set of characters
RemoveChars(s, Cs) ==
    IF Len(s) = 0 THEN ""
    ELSE (IF CharAt(s, 1) \in Cs THEN "" ELSE CharAt(s, 1)) \o RemoveChars(Drop(s, 1), Cs)

\* the characters matched by \s
SpaceChars == {" ", "\t", "\n", "\r"}

RECURSIVE Contains(_, _)
\* sub in s
Contains(s, sub) ==
    IF Len(s) < Len(sub) THEN FALSE
    ELSE StartsWith(s, sub) \/ Contains(Drop(s, 1), sub)

RECURSIVE AfterLast(_, _)
\* s.split(c)[-1]
AfterLast(s, c) ==
    IF IndexOf(s, c) = 0 THEN s ELSE AfterLast(Drop(s, IndexOf(s, c)), c)

\* s.split(c)[0]
BeforeFirst(s, c) == IF IndexOf(s, c) = 0 THEN s ELSE SubSeq(s, 1, IndexOf(s, c) - 1)

RECURSIVE ReplaceAll(_, _, _)
\* s.replace(old, new)
ReplaceAll(s, old, new) ==
    IF Len(s) = 0 THEN ""
    ELSE IF StartsWith(s, old) THEN new \o ReplaceAll(Drop(s, Len(old)), old, new)
    ELSE CharAt(s, 1) \o ReplaceAll(Drop(s, 1), old, new)

\* c is one of the digits 0..9
IsDigit(c) == IndexOf(Digits, c) # 0

\* an int literal without its sign
Unsigned(t) == IF StartsWith(t, "-") \/ StartsWith(t, "+") THEN Drop(t, 1) ELSE t

\* the unsigned part of an int literal is well formed: digits, with single
\* underscores between digits
WellFormed(body) ==
    /\ Len(body) > 0
    /\ IsDigit(CharAt(body, 1)) /\ IsDigit(CharAt(body, Len(body)))
    /\ \A i \in 1..Len(body) :
          \/ IsDigit(CharAt(body, i))
          \/ CharAt(body, i) = "_" /\ i > 1 /\ i < Len(body)
             /\ IsDigit(CharAt(body, i - 1)) /\ IsDigit(CharAt(body, i + 1))

RECURSIVE DecimalValue(_)
\* the number a string of digits denotes
DecimalValue(digits) ==
    IF Len(digits) = 0 THEN 0
    ELSE 10 * DecimalValue(SubSeq(digits, 1, Len(digits) - 1))
         + (IndexOf(Digits, CharAt(digits, Len(digits))) - 1)

\* int(t) for a stripped str
ParseStripped(t) ==
    IF WellFormed(Unsigned(t))
    THEN [ok |-> TRUE,
          val |-> (IF StartsWith(t, "-") THEN 0 - 1 ELSE 1)
                  * DecimalValue(RemoveChars(Unsigned(t), {"_"}))]
    ELSE [ok |-> FALSE, val |-> 0]

\* int(s) for a str: [ok |-> FALSE] stands for ValueError.  Surrounding
\* whitespace, one sign and single underscores between digits are accepted.
ParseInt(s) == ParseStripped(Strip(s))

_normalise_code(s) ==
    IF s = "" THEN ""
    ELSE Strip(BeforeFirst(Lower(RemoveChars(s, SpaceChars \cup {"-", "/"})), "("))

_format_code_as_label(std_code) ==
    IF std_code = "" THEN ""
    ELSE LET s0 == Strip(std_code)
             s == IF IndexOf(s0, "/") # 0 THEN AfterLast(s0, "/") ELSE s0
             \* out is the list of pieces appended so far
             RECURSIVE Loop(_, _)
             Loop(i, out) ==
                IF i > Len(s) THEN out
                ELSE LET c == CharAt(s, i)
                     IN  IF IsUpper(c) /\ i # 1
                         THEN Loop(i + 1, out \o <<" ", c>>)
                         ELSE Loop(i + 1,
                                   Append(out,
                                          IF i = 1 \/ (i > 1 /\ out[Len(out)] = " ")
                                          THEN UpperChar(c) ELSE LowerChar(c)))
             result == Strip(ReplaceAll(Join("", Loop(1, <<>>)), "  ", " "))
         IN  IF StartsWith(s0, "(") /\ Contains(Lower(s0), "reserved") THEN "Reserved"
             ELSE IF Lower(result) = "license" THEN "Licence"
             ELSE result

\* the bundled (codelist, vendor numeric code, standard code name) rows
_get_inlined_arcgis_coded_values == <<
    <<"CI_PresentationFormCode", "001", "documentDigital">>, <<"CI_PresentationFormCode", "002", "documentHardcopy">>,
    <<"CI_PresentationFormCode", "003", "imageDigital">>, <<"CI_PresentationFormCode", "004", "imageHardcopy">>,
    <<"CI_PresentationFormCode", "005", "mapDigital">>, <<"CI_PresentationFormCode", "006", "mapHardcopy">>,
    <<"CI_PresentationFormCode", "007", "modelDigital">>, <<"CI_PresentationFormCode", "008", "modelHardcopy">>,
    <<"CI_PresentationFormCode", "009", "profileDigital">>, <<"CI_PresentationFormCode", "010", "profileHardcopy">>,
    <<"CI_PresentationFormCode", "011", "tableDigital">>, <<"CI_PresentationFormCode", "012", "tableHardcopy">>,
    <<"CI_PresentationFormCode", "013", "videoDigital">>, <<"CI_PresentationFormCode", "014", "videoHardcopy">>,
    <<"CI_PresentationFormCode", "015", "audioDigital">>, <<"CI_PresentationFormCode", "016", "audioHardcopy">>,
    <<"CI_PresentationFormCode", "017", "multimediaDigital">>, <<"CI_PresentationFormCode", "018", "multimediaHardcopy">>,
    <<"CI_PresentationFormCode", "019", "diagramDigital">>, <<"CI_PresentationFormCode", "020", "diagramHardcopy">>,
    <<"CI_PresentationFormCode", "021", "physicalObject">>, <<"CI_RoleCode", "001", "resourceProvider">>,
    <<"CI_RoleCode", "002", "custodian">>, <<"CI_RoleCode", "003", "owner">>,
    <<"CI_RoleCode", "004", "user">>, <<"CI_RoleCode", "005", "distributor">>,
    <<"CI_RoleCode", "006", "originator">>, <<"CI_RoleCode", "007", "pointOfContact">>,
    <<"CI_RoleCode", "008", "principalInvestigator">>, <<"CI_RoleCode", "009", "processor">>,
    <<"CI_RoleCode", "010", "publisher">>, <<"CI_RoleCode", "011", "author">>,
    <<"CI_RoleCode", "012", "collaborator">>, <<"CI_RoleCode", "013", "editor">>,
    <<"CI_RoleCode", "014", "mediator">>, <<"CI_RoleCode", "015", "rightsHolder">>,
    <<"CI_RoleCode", "016", "sponsor">>, <<"CI_RoleCode", "017", "coAuthor">>,
    <<"CI_RoleCode", "018", "contributor">>, <<"CI_RoleCode", "019", "funder">>,
    <<"CI_RoleCode", "020", "stakeholder">>, <<"MD_MaintenanceFrequencyCode", "001", "continual">>,
    <<"MD_MaintenanceFrequencyCode", "002", "daily">>, <<"MD_MaintenanceFrequencyCode", "003", "weekly">>,
    <<"MD_MaintenanceFrequencyCode", "004", "fortnightly">>, <<"MD_MaintenanceFrequencyCode", "005", "monthly">>,
    <<"MD_MaintenanceFrequencyCode", "006", "quarterly">>, <<"MD_MaintenanceFrequencyCode", "007", "biannually">>,
    <<"MD_MaintenanceFrequencyCode", "008", "annually">>, <<"MD_MaintenanceFrequencyCode", "009", "asNeeded">>,
    <<"MD_MaintenanceFrequencyCode", "010", "irregular">>, <<"MD_MaintenanceFrequencyCode", "011", "notPlanned">>,
    <<"MD_MaintenanceFrequencyCode", "012", "unknown">>, <<"MD_MaintenanceFrequencyCode", "013", "semimonthly">>,
    <<"MD_MaintenanceFrequencyCode", "014", "periodic">>, <<"MD_MaintenanceFrequencyCode", "015", "biennially">>,
    <<"MD_ProgressCode", "001", "completed">>, <<"MD_ProgressCode", "002", "historicalArchive">>,
    <<"MD_ProgressCode", "003", "obsolete">>, <<"MD_ProgressCode", "004", "onGoing">>,
    <<"MD_ProgressCode", "005", "planned">>, <<"MD_ProgressCode", "006", "required">>,
    <<"MD_ProgressCode", "007", "underDevelopment">>, <<"MD_ProgressCode", "008", "proposed">>,
    <<"MD_ProgressCode", "009", "final">>, <<"MD_ProgressCode", "010", "pending">>,
    <<"MD_ProgressCode", "011", "retired">>, <<"MD_ProgressCode", "012", "superseded">>,
    <<"MD_ProgressCode", "013", "tentative">>, <<"MD_ProgressCode", "014", "valid">>,
    <<"MD_ProgressCode", "015", "accepted">>, <<"MD_ProgressCode", "016", "notAccepted">>,
    <<"MD_ProgressCode", "017", "withdrawn">>, <<"MD_ProgressCode", "018", "deprecated">>,
    <<"MD_RestrictionCode", "001", "copyright">>, <<"MD_RestrictionCode", "002", "patent">>,
    <<"MD_RestrictionCode", "003", "patentPending">>, <<"MD_RestrictionCode", "004", "trademark">>,
    <<"MD_RestrictionCode", "005", "license">>, <<"MD_RestrictionCode", "006", "intellectualPropertyRights">>,
    <<"MD_RestrictionCode", "007", "restricted">>, <<"MD_RestrictionCode", "008", "otherRestrictions">>,
    <<"MD_RestrictionCode", "009", "licenseUnrestricted">>, <<"MD_RestrictionCode", "010", "licenseEndUser">>,
    <<"MD_RestrictionCode", "011", "licenseDistributor">>, <<"MD_RestrictionCode", "012", "privacy">>,
    <<"MD_RestrictionCode", "013", "statutory">>, <<"MD_RestrictionCode", "014", "confidential">>,
    <<"MD_RestrictionCode", "015", "sensitivity/sensitiveButUnclassified">>, <<"MD_RestrictionCode", "016", "unrestricted">>,
    <<"MD_RestrictionCode", "017", "in-confidence">>, <<"MD_ScopeCode", "001", "attribute">>,
    <<"MD_ScopeCode", "002", "attributeType">>, <<"MD_ScopeCode", "003", "collectionHardware">>,
    <<"MD_ScopeCode", "004", "collectionSession">>, <<"MD_ScopeCode", "005", "dataset">>,
    <<"MD_ScopeCode", "006", "series">>, <<"MD_ScopeCode", "007", "nonGeographicDataset">>,
    <<"MD_ScopeCode", "008", "dimensionGroup">>, <<"MD_ScopeCode", "009", "feature">>,
    <<"MD_ScopeCode", "010", "featureType">>, <<"MD_ScopeCode", "011", "propertyType">>,
    <<"MD_ScopeCode", "012", "fieldSession">>, <<"MD_ScopeCode", "013", "software">>,
    <<"MD_ScopeCode", "014", "service">>, <<"MD_ScopeCode", "015", "model">>,
    <<"MD_ScopeCode", "016", "tile">>, <<"MD_ScopeCode", "017", "initiative">>,
    <<"MD_ScopeCode", "018", "stereomate">>, <<"MD_ScopeCode", "019", "sensor">>,
    <<"MD_ScopeCode", "020", "platformSeries">>, <<"MD_ScopeCode", "021", "sensorSeries">>,
    <<"MD_ScopeCode", "022", "productionSeries">>, <<"MD_ScopeCode", "023", "transferAggregate">>,
    <<"MD_ScopeCode", "024", "otherAggregate">>, <<"MD_ScopeCode", "025", "metadata">>,
    <<"MD_ScopeCode", "026", "sample">>, <<"MD_ScopeCode", "027", "document">>,
    <<"MD_ScopeCode", "028", "repository">>, <<"MD_ScopeCode", "029", "aggregate">>,
    <<"MD_ScopeCode", "030", "product">>, <<"MD_ScopeCode", "031", "collection">>,
    <<"MD_ScopeCode", "032", "coverage">>, <<"MD_ScopeCode", "033", "application">>,
    <<"MD_SpatialRepresentationTypeCode", "001", "vector">>, <<"MD_SpatialRepresentationTypeCode", "002", "grid">>,
    <<"MD_SpatialRepresentationTypeCode", "003", "textTable">>, <<"MD_SpatialRepresentationTypeCode", "004", "tin">>,
    <<"MD_SpatialRepresentationTypeCode", "005", "stereoModel">>, <<"MD_SpatialRepresentationTypeCode", "006", "video">>,
    <<"MD_TopicCategoryCode", "001", "farming">>, <<"MD_TopicCategoryCode", "002", "biota">>,
    <<"MD_TopicCategoryCode", "003", "boundaries">>, <<"MD_TopicCategoryCode", "004", "climatologyMeteorologyAtmosphere">>,
    <<"MD_TopicCategoryCode", "005", "economy">>, <<"MD_TopicCategoryCode", "006", "elevation">>,
    <<"MD_TopicCategoryCode", "007", "environment">>, <<"MD_TopicCategoryCode", "008", "geoscientificInformation">>,
    <<"MD_TopicCategoryCode", "009", "health">>, <<"MD_TopicCategoryCode", "010", "imageryBaseMapsEarthCover">>,
    <<"MD_TopicCategoryCode", "011", "intelligenceMilitary">>, <<"MD_TopicCategoryCode", "012", "inlandWaters">>,
    <<"MD_TopicCategoryCode", "013", "location">>, <<"MD_TopicCategoryCode", "014", "oceans">>,
    <<"MD_TopicCategoryCode", "015", "planningCadastre">>, <<"MD_TopicCategoryCode", "016", "society">>,
    <<"MD_TopicCategoryCode", "017", "structure">>, <<"MD_TopicCategoryCode", "018", "transportation">>,
    <<"MD_TopicCategoryCode", "019", "utilitiesCommunication">>, <<"MD_TopicCategoryCode", "020", "extraTerrestrial">>,
    <<"MD_TopicCategoryCode", "021", "disaster">>, <<"MD_TopologyLevelCode", "001", "geometryOnly">>,
    <<"MD_TopologyLevelCode", "002", "topology1D">>, <<"MD_TopologyLevelCode", "003", "planarGraph">>,
    <<"MD_TopologyLevelCode", "004", "fullPlanarGraph">>, <<"MD_TopologyLevelCode", "005", "surfaceGraph">>,
    <<"MD_TopologyLevelCode", "006", "fullSurfaceGraph">>, <<"MD_TopologyLevelCode", "007", "topology3D">>,
    <<"MD_TopologyLevelCode", "008", "fullTopology3D">>, <<"MD_TopologyLevelCode", "009", "abstract">>,
    <<"MD_CharacterSetCode", "001", "ucs2">>, <<"MD_CharacterSetCode", "002", "ucs4">>,
    <<"MD_CharacterSetCode", "003", "utf7">>, <<"MD_CharacterSetCode", "004", "utf8">>,
    <<"MD_CharacterSetCode", "005", "utf16">>, <<"MD_CharacterSetCode", "006", "8859part1">>,
    <<"MD_CharacterSetCode", "007", "8859part2">>, <<"MD_CharacterSetCode", "008", "8859part3">>,
    <<"MD_CharacterSetCode", "009", "8859part4">>, <<"MD_CharacterSetCode", "010", "8859part5">>,
    <<"MD_CharacterSetCode", "011", "8859part6">>, <<"MD_CharacterSetCode", "012", "8859part7">>,
    <<"MD_CharacterSetCode", "013", "8859part8">>, <<"MD_CharacterSetCode", "014", "8859part9">>,
    <<"MD_CharacterSetCode", "015", "8859part10">>, <<"MD_CharacterSetCode", "016", "8859part11">>,
    <<"MD_CharacterSetCode", "017", "(reserved for future use)">>, <<"MD_CharacterSetCode", "018", "8859part13">>,
    <<"MD_CharacterSetCode", "019", "8859part14">>, <<"MD_CharacterSetCode", "020", "8859part15">>,
    <<"MD_CharacterSetCode", "021", "8859part16">>, <<"MD_CharacterSetCode", "022", "jis">>,
    <<"MD_CharacterSetCode", "023", "shiftJIS">>, <<"MD_CharacterSetCode", "024", "eucJP">>,
    <<"MD_CharacterSetCode", "025", "usAscii">>, <<"MD_CharacterSetCode", "026", "ebcdic">>,
    <<"MD_CharacterSetCode", "027", "eucKR">>, <<"MD_CharacterSetCode", "028", "big5">>,
    <<"MD_CharacterSetCode", "029", "GB2312">>, <<"MD_GeometricObjectTypeCode", "001", "complex">>,
    <<"MD_GeometricObjectTypeCode", "002", "composite">>, <<"MD_GeometricObjectTypeCode", "003", "curve">>,
    <<"MD_GeometricObjectTypeCode", "004", "point">>, <<"MD_GeometricObjectTypeCode", "005", "solid">>,
    <<"MD_GeometricObjectTypeCode", "006", "surface">>
  >>

\* the reference table in use: the bundled rows (no spreadsheet beside the script)
_ARCGIS_CODED_VALUES == _get_inlined_arcgis_coded_values

\* the label of one row taken from the formatter alone
RowLabel_formatted(std_code, by_name) == _format_code_as_label(std_code)

\* the label of one row: by_name.get(key) when the key is known, else the
\* formatted standard code
RowLabel(std_code, by_name) ==
    LET key == _normalise_code(std_code)
    IN  IF key # "" /\ key \in DOMAIN by_name THEN by_name[key]
        ELSE _format_code_as_label(std_code)

\* the rows the loop does not skip, in order
TakenRows(codelist_name, arcgis_coded_values) ==
    SelectSeq(arcgis_coded_values,
              LAMBDA row : row[1] = codelist_name /\ ParseInt(row[2]).ok)

\* by_num after the loop over rows: the last row of a number is the one
\* that stays
ByNum(rows, by_name) ==
    [n \in {ParseInt(rows[k][2]).val : k \in 1..Len(rows)} |->
        RowLabel(rows[CHOOSE k \in 1..Len(rows) :
                        /\ ParseInt(rows[k][2]).val = n
                        /\ \A j \in (k + 1)..Len(rows) : ParseInt(rows[j][2]).val # n][3],
                 by_name)]

_build_by_num_from_arcgis(codelist_name, by_name, arcgis_coded_values) ==
    ByNum(TakenRows(codelist_name, arcgis_coded_values), by_name)

\* MD_RestrictionCode: the name table and the number table
_codelist_restriction ==
    LET by_name ==
               ("copyright" :> "Copyright")
            @@ ("patent" :> "Patent")
            @@ ("patentpending" :> "Patent pending")
            @@ ("trademark" :> "Trademark")
            @@ ("license" :> "Licence")
            @@ ("licence" :> "Licence")
            @@ ("intellectualpropertyrights" :> "Intellectual property rights")
            @@ ("restricted" :> "Restricted")
            @@ ("otherrestrictions" :> "Other restrictions")
            @@ ("unrestricted" :> "Unrestricted")
            @@ ("licenceunrestricted" :> "Licence unrestricted")
            @@ ("licenceenduser" :> "Licence end user")
            @@ ("licencedistributor" :> "Licence distributor")
            @@ ("private" :> "Private")
            @@ ("privacy" :> "Private")
            @@ ("statutory" :> "Statutory")
            @@ ("confidential" :> "Confidential")
            @@ ("sbu" :> "Sensitive but unclassified")
            @@ ("sensitivebutunclassified" :> "Sensitive but unclassified")
            @@ ("in-confidence" :> "In confidence")
        by_num == _build_by_num_from_arcgis("MD_RestrictionCode", by_name, _ARCGIS_CODED_VALUES)
    IN  [by_name |-> by_name, by_num |-> by_num]

\* CI_RoleCode: the name table and the number table
_codelist_role ==
    LET by_name ==
               ("resourceprovider" :> "Resource provider")
            @@ ("custodian" :> "Custodian")
            @@ ("owner" :> "Owner")
            @@ ("sponsor" :> "Sponsor")
            @@ ("user" :> "User")
            @@ ("distributor" :> "Distributor")
            @@ ("originator" :> "Originator")
            @@ ("pointofcontact" :> "Point of contact")
            @@ ("principalinvestigator" :> "Principal investigator")
            @@ ("processor" :> "Processor")
            @@ ("publisher" :> "Publisher")
            @@ ("author" :> "Author")
            @@ ("coauthor" :> "Co-author")
            @@ ("collaborator" :> "Collaborator")
            @@ ("editor" :> "Editor")
            @@ ("mediator" :> "Mediator")
            @@ ("rightsholder" :> "Rights holder")
            @@ ("contributor" :> "Contributor")
            @@ ("funder" :> "Funder")
            @@ ("stakeholder" :> "Stakeholder")
        by_num == _build_by_num_from_arcgis("CI_RoleCode", by_name, _ARCGIS_CODED_VALUES)
    IN  [by_name |-> by_name, by_num |-> by_num]

\* MD_ProgressCode: the name table and the number table
_codelist_progress ==
    LET by_name ==
               ("completed" :> "Completed")
            @@ ("historicalarchive" :> "Historical archive")
            @@ ("obsolete" :> "Obsolete")
            @@ ("ongoing" :> "On-going")
            @@ ("planned" :> "Planned")
            @@ ("required" :> "Required")
            @@ ("underdevelopment" :> "Under development")
            @@ ("final" :> "Final")
            @@ ("pending" :> "Pending")
            @@ ("retired" :> "Retired")
            @@ ("superseded" :> "Superseded")
            @@ ("tentative" :> "Tentative")
            @@ ("valid" :> "Valid")
            @@ ("accepted" :> "Accepted")
            @@ ("notaccepted" :> "Not accepted")
            @@ ("withdrawn" :> "Withdrawn")
            @@ ("proposed" :> "Proposed")
            @@ ("deprecated" :> "Deprecated")
        by_num == _build_by_num_from_arcgis("MD_ProgressCode", by_name, _ARCGIS_CODED_VALUES)
    IN  [by_name |-> by_name, by_num |-> by_num]

\* MD_MaintenanceFrequencyCode: the name table and the number table
_codelist_maintenance_frequency ==
    LET by_name ==
               ("continual" :> "Continual")
            @@ ("daily" :> "Daily")
            @@ ("weekly" :> "Weekly")
            @@ ("fortnightly" :> "Fortnightly")
            @@ ("monthly" :> "Monthly")
            @@ ("quarterly" :> "Quarterly")
            @@ ("biannually" :> "Biannually")
            @@ ("annually" :> "Annually")
            @@ ("asneeded" :> "As needed")
            @@ ("irregular" :> "Irregular")
            @@ ("notplanned" :> "Not planned")
            @@ ("unknown" :> "Unknown")
            @@ ("semimonthly" :> "Semi-monthly")
            @@ ("periodic" :> "Periodic")
            @@ ("biennially" :> "Biennially")
        by_num == _build_by_num_from_arcgis("MD_MaintenanceFrequencyCode", by_name, _ARCGIS_CODED_VALUES)
    IN  [by_name |-> by_name, by_num |-> by_num]

\* MD_TopicCategoryCode: the name table and the number table
_codelist_topic_category ==
    LET by_name ==
               ("farming" :> "Farming")
            @@ ("biota" :> "Biota")
            @@ ("boundaries" :> "Boundaries")
            @@ ("climatologymeteorologyatmosphere" :> "Climatology, meteorology, atmosphere")
            @@ ("economy" :> "Economy")
            @@ ("elevation" :> "Elevation")
            @@ ("environment" :> "Environment")
            @@ ("geoscientificinformation" :> "Geoscientific information")
            @@ ("health" :> "Health")
            @@ ("imagerybasemapsearthcover" :> "Imagery, base maps, earth cover")
            @@ ("intelligencemilitary" :> "Intelligence, military")
            @@ ("inlandwaters" :> "Inland waters")
            @@ ("location" :> "Location")
            @@ ("oceans" :> "Oceans")
            @@ ("planningcadastre" :> "Planning, cadastre")
            @@ ("society" :> "Society")
            @@ ("structure" :> "Structure")
            @@ ("transportation" :> "Transportation")
            @@ ("utilitiescommunication" :> "Utilities, communication")
            @@ ("extraterrestrial" :> "Extra-terrestrial")
            @@ ("disaster" :> "Disaster")
        by_num == _build_by_num_from_arcgis("MD_TopicCategoryCode", by_name, _ARCGIS_CODED_VALUES)
    IN  [by_name |-> by_name, by_num |-> by_num]

\* MD_ScopeCode: the name table and the number table
_codelist_scope ==
    LET by_name ==
               ("attribute" :> "Attribute")
            @@ ("attributetype" :> "Attribute type")
            @@ ("collectionhardware" :> "Collection hardware")
            @@ ("collectionsession" :> "Collection session")
            @@ ("dataset" :> "Dataset")
            @@ ("series" :> "Series")
            @@ ("nongeographicdataset" :> "Non-geographic dataset")
            @@ ("dimensiongroup" :> "Dimension group")
            @@ ("feature" :> "Feature")
            @@ ("featuretype" :> "Feature type")
            @@ ("propertytype" :> "Property type")
            @@ ("fieldsession" :> "Field session")
            @@ ("software" :> "Software")
            @@ ("service" :> "Service")
            @@ ("model" :> "Model")
            @@ ("tile" :> "Tile")
            @@ ("metadata" :> "Metadata")
            @@ ("initiative" :> "Initiative")
            @@ ("sample" :> "Sample")
            @@ ("document" :> "Document")
            @@ ("repository" :> "Repository")
            @@ ("aggregate" :> "Aggregate")
            @@ ("product" :> "Product")
            @@ ("collection" :> "Collection")
            @@ ("coverage" :> "Coverage")
            @@ ("application" :> "Application")
            @@ ("stereomate" :> "Stereomate")
            @@ ("sensor" :> "Sensor")
            @@ ("platformseries" :> "Platform series")
            @@ ("sensorseries" :> "Sensor series")
            @@ ("productionseries" :> "Production series")
            @@ ("transferaggregate" :> "Transfer aggregate")
            @@ ("otheraggregate" :> "Other aggregate")
        by_num == _build_by_num_from_arcgis("MD_ScopeCode", by_name, _ARCGIS_CODED_VALUES)
    IN  [by_name |-> by_name, by_num |-> by_num]

\* MD_CharacterSetCode: the name table and the number table
_codelist_character_set ==
    LET by_name ==
               ("ucs2" :> "UCS-2")
            @@ ("ucs4" :> "UCS-4")
            @@ ("utf7" :> "UTF-7")
            @@ ("utf8" :> "UTF-8")
            @@ ("utf16" :> "UTF-16")
            @@ ("8859part1" :> "ISO 8859-1")
            @@ ("8859part2" :> "ISO 8859-2")
            @@ ("8859part3" :> "ISO 8859-3")
            @@ ("8859part4" :> "ISO 8859-4")
            @@ ("8859part5" :> "ISO 8859-5")
            @@ ("8859part6" :> "ISO 8859-6")
            @@ ("8859part7" :> "ISO 8859-7")
            @@ ("8859part8" :> "ISO 8859-8")
            @@ ("8859part9" :> "ISO 8859-9")
            @@ ("8859part10" :> "ISO 8859-10")
            @@ ("8859part11" :> "ISO 8859-11")
            @@ ("8859part13" :> "ISO 8859-13")
            @@ ("8859part14" :> "ISO 8859-14")
            @@ ("8859part15" :> "ISO 8859-15")
            @@ ("8859part16" :> "ISO 8859-16")
            @@ ("usascii" :> "US ASCII")
            @@ ("ebcdic" :> "EBCDIC")
            @@ ("jis" :> "JIS")
            @@ ("shiftjis" :> "Shift JIS")
            @@ ("eucjp" :> "EUC-JP")
            @@ ("euckr" :> "EUC-KR")
            @@ ("big5" :> "Big 5")
            @@ ("gb2312" :> "GB 2312")
        by_num == _build_by_num_from_arcgis("MD_CharacterSetCode", by_name, _ARCGIS_CODED_VALUES)
    IN  [by_name |-> by_name, by_num |-> by_num]

\* MD_SpatialRepresentationTypeCode: the name table and the number table
_codelist_spatial_representation ==
    LET by_name ==
               ("vector" :> "Vector")
            @@ ("grid" :> "Grid")
            @@ ("texttable" :> "Text, table")
            @@ ("tin" :> "TIN")
            @@ ("stereomodel" :> "Stereo model")
            @@ ("video" :> "Video")
        by_num == _build_by_num_from_arcgis("MD_SpatialRepresentationTypeCode", by_name, _ARCGIS_CODED_VALUES)
    IN  [by_name |-> by_name, by_num |-> by_num]

\* MD_TopologyLevelCode: the name table and the number table
_codelist_topology_level ==
    LET by_name ==
               ("geometryonly" :> "Geometry only")
            @@ ("topology1d" :> "Topology 1D")
            @@ ("planargraph" :> "Planar graph")
            @@ ("fullplanargraph" :> "Full planar graph")
            @@ ("surfacegraph" :> "Surface graph")
            @@ ("fullsurfacegraph" :> "Full surface graph")
            @@ ("topology3d" :> "Topology 3D")
            @@ ("fulltopology3d" :> "Full topology 3D")
            @@ ("abstract" :> "Abstract")
        by_num == _build_by_num_from_arcgis("MD_TopologyLevelCode", by_name, _ARCGIS_CODED_VALUES)
    IN  [by_name |-> by_name, by_num |-> by_num]

\* CI_PresentationFormCode: the name table and the number table
_codelist_presentation_form ==
    LET by_name ==
               ("documentdigital" :> "Document (digital)")
            @@ ("documenthardcopy" :> "Document (hard copy)")
            @@ ("imagedigital" :> "Image (digital)")
            @@ ("imagehardcopy" :> "Image (hard copy)")
            @@ ("mapdigital" :> "Map (digital)")
            @@ ("maphardcopy" :> "Map (hard copy)")
            @@ ("modeldigital" :> "Model (digital)")
            @@ ("modelhardcopy" :> "Model (hard copy)")
            @@ ("profiledigital" :> "Profile (digital)")
            @@ ("profilehardcopy" :> "Profile (hard copy)")
            @@ ("tabledigital" :> "Table (digital)")
            @@ ("tablehardcopy" :> "Table (hard copy)")
            @@ ("videodigital" :> "Video (digital)")
            @@ ("videohardcopy" :> "Video (hard copy)")
            @@ ("audiodigital" :> "Audio (digital)")
            @@ ("audiohardcopy" :> "Audio (hard copy)")
            @@ ("multimediadigital" :> "Multimedia (digital)")
            @@ ("multimediahardcopy" :> "Multimedia (hard copy)")
            @@ ("diagramdigital" :> "Diagram (digital)")
            @@ ("diagramhardcopy" :> "Diagram (hard copy)")
            @@ ("physicalobject" :> "Physical object")
        by_num == _build_by_num_from_arcgis("CI_PresentationFormCode", by_name, _ARCGIS_CODED_VALUES)
    IN  [by_name |-> by_name, by_num |-> by_num]

\* MD_GeometricObjectTypeCode: the name table and the number table
_codelist_geometric_object_type ==
    LET by_name ==
               ("complex" :> "Complex")
            @@ ("composite" :> "Composite")
            @@ ("curve" :> "Curve")
            @@ ("point" :> "Point")
            @@ ("solid" :> "Solid")
            @@ ("surface" :> "Surface")
        by_num == _build_by_num_from_arcgis("MD_GeometricObjectTypeCode", by_name, _ARCGIS_CODED_VALUES)
    IN  [by_name |-> by_name, by_num |-> by_num]

\* ArcGIS_ContentTypeCode: the name table and the number table
_codelist_content_type ==
    LET by_name ==
               ("livedataandmaps" :> "Live Data and Maps")
            @@ ("downloadabledata" :> "Downloadable Data")
            @@ ("offlinedata" :> "Offline Data")
            @@ ("staticmapimages" :> "Static Map Images")
            @@ ("otherdocuments" :> "Other Documents")
            @@ ("applications" :> "Applications")
            @@ ("geographicservices" :> "Geographic Services")
            @@ ("clearinghouses" :> "Clearinghouses")
            @@ ("mapfiles" :> "Map Files")
            @@ ("geographicactivities" :> "Geographic Activities")
        by_num ==
               (1 :> "Live Data and Maps")
            @@ (2 :> "Downloadable Data")
            @@ (3 :> "Offline Data")
            @@ (4 :> "Static Map Images")
            @@ (5 :> "Other Documents")
            @@ (6 :> "Applications")
            @@ (7 :> "Geographic Services")
            @@ (8 :> "Clearinghouses")
            @@ (9 :> "Map Files")
            @@ (10 :> "Geographic Activities")
    IN  [by_name |-> by_name, by_num |-> by_num]

\* the codelist registry: name -> (by_name, by_num)
_CODELISTS ==
    [codelist_name \in
        {"MD_RestrictionCode", "CI_RoleCode", "MD_ProgressCode",
         "MD_MaintenanceFrequencyCode", "MD_TopicCategoryCode",
         "MD_ScopeCode", "MD_CharacterSetCode",
         "MD_SpatialRepresentationTypeCode",
         "MD_TopologyLevelCode", "CI_PresentationFormCode",
         "MD_GeometricObjectTypeCode", "ArcGIS_ContentTypeCode"} |->
        CASE codelist_name = "MD_RestrictionCode" -> _codelist_restriction
          [] codelist_name = "CI_RoleCode" -> _codelist_role
          [] codelist_name = "MD_ProgressCode" -> _codelist_progress
          [] codelist_name = "MD_MaintenanceFrequencyCode" -> _codelist_maintenance_frequency
          [] codelist_name = "MD_TopicCategoryCode" -> _codelist_topic_category
          [] codelist_name = "MD_ScopeCode" -> _codelist_scope
          [] codelist_name = "MD_CharacterSetCode" -> _codelist_character_set
          [] codelist_name = "MD_SpatialRepresentationTypeCode" -> _codelist_spatial_representation
          [] codelist_name = "MD_TopologyLevelCode" -> _codelist_topology_level
          [] codelist_name = "CI_PresentationFormCode" -> _codelist_presentation_form
          [] codelist_name = "MD_GeometricObjectTypeCode" -> _codelist_geometric_object_type
          [] codelist_name = "ArcGIS_ContentTypeCode" -> _codelist_content_type
    ]

\* the two module-level tables as they are after the module is loaded
Registries == [codelists |-> _CODELISTS, obligation |-> FIELD_OBLIGATION]

\* resolve_codelist without the lookup in the number table
ResolveIn_names_only(raw, codelist_name, codelists) ==
    LET key == Lower(RemoveChars(raw, SpaceChars \cup {"-"}))
    IN  IF raw = "" THEN ""
        ELSE IF codelist_name \notin DOMAIN codelists THEN raw
        ELSE IF key \in DOMAIN codelists[codelist_name].by_name
        THEN codelists[codelist_name].by_name[key]
        ELSE raw

\* resolve_codelist from 'raw = str(raw_value).strip()' on, with the registry
\* read once into codelists
ResolveIn(raw, codelist_name, codelists) ==
    LET key == Lower(RemoveChars(raw, SpaceChars \cup {"-"}))
        n == ParseInt(raw)
    IN  IF raw = "" THEN ""
        ELSE IF codelist_name \notin DOMAIN codelists THEN raw
        ELSE IF key \in DOMAIN codelists[codelist_name].by_name
        THEN codelists[codelist_name].by_name[key]
        ELSE IF n.ok /\ n.val \in DOMAIN codelists[codelist_name].by_num
        THEN codelists[codelist_name].by_num[n.val]
        ELSE raw

resolve_codelist(raw_value, codelist_name) ==
    IF raw_value = "" THEN ""
    ELSE ResolveIn(Strip(raw_value), codelist_name, _CODELISTS)

\* get_field_obligation looking the name up without regard to case
get_field_obligation_anycase(field_name) ==
    IF \E k \in DOMAIN FIELD_OBLIGATION : Lower(k) = Lower(field_name)
    THEN FIELD_OBLIGATION[CHOOSE k \in DOMAIN FIELD_OBLIGATION : Lower(k) = Lower(field_name)]
    ELSE "optional"

get_field_obligation(field_name) ==
    IF field_name \in DOMAIN FIELD_OBLIGATION THEN FIELD_OBLIGATION[field_name]
    ELSE IF StartsWith(field_name, "Other Keywords (") THEN "optional"
    ELSE "optional"

(***************************************************************************)
(* extract_metadata.py: extract_all_fields                                 *)
(* fields (an OrderedDict) is a sequence of <<name, value>> pairs.         *)
(***************************************************************************)
\* field_name in fields
HasField(fields, field_name) == \E i \in 1..Len(fields) : fields[i][1] = field_name

\* fields.get(field_name), "" when there is no entry
FieldGet(fields, field_name) ==
    IF HasField(fields, field_name)
    THEN fields[CHOOSE i \in 1..Len(fields) : fields[i][1] = field_name][2]
    ELSE ""

\* fields.keys() as a set
FieldKeys(fields) == {fields[i][1] : i \in 1..Len(fields)}

\* add_field that replaces the value of an existing key
add_field_overwriting(fields, field_name, value) ==
    IF value # ""
    THEN IF HasField(fields, field_name)
         THEN [i \in 1..Len(fields) |->
                 IF fields[i][1] = field_name THEN <<field_name, value>> ELSE fields[i]]
         ELSE Append(fields, <<field_name, value>>)
    ELSE fields

\* add_field without the test 'if value:'
add_field_unguarded(fields, field_name, value) ==
    IF HasField(fields, field_name)
    THEN [i \in 1..Len(fields) |->
            IF fields[i][1] = field_name
            THEN <<field_name,
                   IF fields[i][2] # ""
                   THEN fields[i][2] \o " | " \o value
                   ELSE value>>
            ELSE fields[i]]
    ELSE Append(fields, <<field_name, value>>)

add_field(fields, field_name, value) ==
    IF value # ""
    THEN IF HasField(fields, field_name)
         THEN [i \in 1..Len(fields) |->
                 IF fields[i][1] = field_name
                 THEN <<field_name,
                        IF fields[i][2] # ""
                        THEN fields[i][2] \o " | " \o value
                        ELSE value>>
                 ELSE fields[i]]
         ELSE Append(fields, <<field_name, value>>)
    ELSE fields

RECURSIVE Locate(_, _)
\* the node reached from el by a chain of find() calls, None once one fails
Locate(el, ctx) ==
    IF el = None \/ Len(ctx) = 0 THEN el
    ELSE Locate(Find(el, Head(ctx)), Tail(ctx))

\* one add_field statement of extract_all_fields: the chain of containers
\* that guards it, the field name, how the value is read, and from where
Step(ctx, name, op, path, arg) ==
    [ctx |-> ctx, name |-> name, op |-> op, path |-> path, arg |-> arg]

\* add_field(name, get_text(ctx.find(path)))
T(ctx, name, path) == Step(ctx, name, "text", path, "")
\* add_field(name, get_attribute_value(ctx.find(path), attr))
A(ctx, name, path, attr) == Step(ctx, name, "attr", path, attr)
\* add_field(name, resolve_codelist(value or codeListValue of ctx.find(path), codelist))
C(ctx, name, path, codelist) == Step(ctx, name, "code", path, codelist)

\* the texts of the nodes, those without a text included
TextsOf_unfiltered(nodes) == [i \in 1..Len(nodes) |-> get_text(nodes[i])]

\* the texts of the nodes that have one: [get_text(n) for n in nodes if get_text(n)]
TextsOf(nodes) ==
    LET texts == [i \in 1..Len(nodes) |-> get_text(nodes[i])]
    IN  SelectSeq(texts, LAMBDA t : t # "")

\* the raw code taken from 'codeListValue' first
CodeOf_codeListValue_first(el) ==
    IF get_attribute_value(el, "codeListValue") # ""
    THEN get_attribute_value(el, "codeListValue")
    ELSE get_attribute_value(el, "value")

\* the raw code of a coded node: 'value', else 'codeListValue'
CodeOf(el) ==
    IF get_attribute_value(el, "value") # "" THEN get_attribute_value(el, "value")
    ELSE get_attribute_value(el, "codeListValue")

\* the value a statement reads from the element its path finds
ValueOf(st, el) ==
    CASE st.op \in {"text", "text_code"} -> get_text(el)
      [] st.op = "attr" -> get_attribute_value(el, st.arg)
      [] st.op = "code" -> CodeOf(el)
      [] st.op = "attr_code" -> get_attribute_value(el, "code")

\* the add_field call of a statement that reads one element: attributes are
\* read under 'if el is not None', coded values go through resolve_codelist
OneCall(st, el) ==
    IF el = None /\ st.op \in {"attr", "code", "attr_code"} THEN <<>>
    ELSE << <<st.name,
              IF st.op \in {"code", "text_code", "attr_code"}
              THEN resolve_codelist(ValueOf(st, el), st.arg)
              ELSE ValueOf(st, el)>> >>

\* the add_field calls, as <<name, value>> pairs, that one statement makes
\* when its containers exist (node is the innermost container)
Calls(st, node) ==
    CASE st.op \in {"text", "attr", "code", "text_code", "attr_code"} ->
            OneCall(st, Find(node, st.path))
      [] st.op = "self_attr" -> << <<st.name, AttrGet(node, st.arg, "")>> >>
      [] st.op = "join" ->
            LET list == TextsOf(FindAll(node, st.path))
            IN  IF Len(list) # 0 THEN << <<st.name, Join(", ", list)>> >> ELSE <<>>
      [] st.op = "attr_names" ->
            LET attrs == FindAll(node, st.path)
                labels == [i \in 1..Len(attrs) |-> get_text(Find(attrs[i], P("attrlabl")))]
                list == SelectSeq(labels, LAMBDA t : t # "")
            IN  IF Len(list) # 0 THEN << <<st.name, Join(", ", list)>> >> ELSE <<>>
      [] st.op = "other_keys" ->
            LET groups == FindAll(node, st.path)
                RECURSIVE Loop(_)
                Loop(k) ==
                    IF k > Len(groups) THEN <<>>
                    ELSE LET thesa_name ==
                                 get_text(Find(groups[k], D(<<"thesaName", "resTitle">>)))
                             keywords == TextsOf(FindAll(groups[k], P("keyword")))
                             key_name == IF thesa_name # ""
                                         THEN "Other Keywords (" \o thesa_name \o ")"
                                         ELSE "Other Keywords"
                         IN  (IF Len(keywords) # 0
                              THEN << <<key_name, Join(", ", keywords)>> >> ELSE <<>>)
                             \o Loop(k + 1)
            IN  Loop(1)

\* the statements of extract_all_fields in source order
ExtractSteps ==
    LET esri == <<D(<<"Esri">>)>>
        data_props == esri \o <<D(<<"DataProperties">>)>>
        item_props == data_props \o <<D(<<"itemProps">>)>>
        native_ext == item_props \o <<D(<<"nativeExtBox">>)>>
        portal == item_props \o <<D(<<"portalDetails">>)>>
        coord_ref == data_props \o <<D(<<"coordRef">>)>>
        scale_range == esri \o <<D(<<"scaleRange">>)>>
        data_id == <<D(<<"dataIdInfo">>)>>
        citation == data_id \o <<P("idCitation")>>
        data_ext == data_id \o <<P("dataExt")>>
        geo_bbox == data_ext \o <<D(<<"GeoBndBox">>)>>
        graph_over == data_id \o <<P("graphOver")>>
        contact == <<D(<<"mdContact">>)>>
        cnt_info == contact \o <<D(<<"rpCntInfo">>)>>
        address == cnt_info \o <<D(<<"cntAddress">>)>>
        eainfo == <<D(<<"eainfo", "detailed">>)>>
        enttyp == eainfo \o <<P("enttyp")>>
        spat_rep_info == <<D(<<"spatRepInfo">>)>>
        geo_objs == spat_rep_info \o <<D(<<"geometObjs">>)>>
        ref_sys == <<D(<<"refSysInfo", "RefSystem", "refSysID">>)>>
        dq_info == <<D(<<"dqInfo">>)>>
        report_ == dq_info \o <<D(<<"report">>)>>
        online_src == <<D(<<"distInfo">>), D(<<"onLineSrc">>)>>
        md_maint == <<D(<<"mdMaint">>)>>
        md_lang == <<D(<<"mdLang">>)>>
        md_hr_lv == <<D(<<"mdHrLv">>)>>
        esri_term == <<D(<<"spdoinfo">>), D(<<"esriterm">>)>>
        md_char == <<D(<<"mdChar">>)>>
        root == <<>>
    IN <<
      T(esri, "ArcGIS Format", P("ArcGISFormat")),
      T(esri, "ArcGIS Profile", P("ArcGISProfile")),
      T(esri, "Creation Date", P("CreaDate")),
      T(esri, "Creation Time", P("CreaTime")),
      T(esri, "Modification Date", P("ModDate")),
      T(esri, "Modification Time", P("ModTime")),
      T(item_props, "Item Name", P("itemName")),
      Step(item_props, "Content Type", "text_code", P("imsContentType"),
           "ArcGIS_ContentTypeCode"),
      T(native_ext, "West Bounding Longitude", P("westBL")),
      T(native_ext, "East Bounding Longitude", P("eastBL")),
      T(native_ext, "South Bounding Latitude", P("southBL")),
      T(native_ext, "North Bounding Latitude", P("northBL")),
      T(portal, "Thumbnail URL", P("thumbnailURL")),
      T(coord_ref, "Coordinate System Type", P("type")),
      T(coord_ref, "Geographic CS Name", P("geogcsn")),
      T(coord_ref, "Projected CS Name", P("projcsn")),
      T(coord_ref, "Coordinate System Units", P("csUnits")),
      T(scale_range, "Minimum Scale", P("minScale")),
      T(scale_range, "Maximum Scale", P("maxScale")),
      T(data_id, "Abstract", P("idAbs")),
      T(citation, "Resource Title", P("resTitle")),
      T(citation, "Resource Alternative Title", P("resAltTitle")),
      T(citation, "Collection Title", P("collTitle")),
      T(citation, "Publication Date", D(<<"date", "pubDate">>)),
      C(citation, "Presentation Form", D(<<"presForm", "PresFormCd">>),
        "CI_PresentationFormCode"),
      T(data_ext, "Extent Description", P("exDesc")),
      T(geo_bbox, "Geographic West Bounding Longitude", P("westBL")),
      T(geo_bbox, "Geographic East Bounding Longitude", P("eastBL")),
      T(geo_bbox, "Geographic North Bounding Latitude", P("northBL")),
      T(geo_bbox, "Geographic South Bounding Latitude", P("southBL")),
      Step(data_id, "Keywords", "join", D(<<"searchKeys", "keyword">>), ""),
      T(data_id, "Purpose", P("idPurp")),
      T(data_id, "Credit", P("idCredit")),
      T(data_id, "Use Limitation", D(<<"useLimit">>)),
      C(data_id, "Access Constraints", D(<<"accessConsts", "RestrictCd">>),
        "MD_RestrictionCode"),
      T(data_id, "Other Constraints", D(<<"othConsts">>)),
      A(data_id, "Data Language", D(<<"dataLang", "languageCode">>), "value"),
      A(data_id, "Data Country Code", D(<<"dataLang", "countryCode">>), "value"),
      C(data_id, "Character Set", D(<<"dataChar", "CharSetCd">>), "MD_CharacterSetCode"),
      C(data_id, "Spatial Representation Type", D(<<"spatRpType", "SpatRepTypCd">>),
        "MD_SpatialRepresentationTypeCode"),
      T(data_id, "Scale Denominator", D(<<"dataScale", "equScale", "rfDenom">>)),
      T(data_id, "Environment Description", P("envirDesc")),
      C(data_id, "Status", D(<<"idStatus", "ProgCd">>), "MD_ProgressCode"),
      T(graph_over, "Graphic File Name", P("bgFileName")),
      T(graph_over, "Graphic File Description", P("bgFileDesc")),
      T(graph_over, "Graphic File Type", P("bgFileType")),
      C(data_id, "Maintenance Frequency", D(<<"resMaint", "maintFreq", "MaintFreqCd">>),
        "MD_MaintenanceFrequencyCode"),
      C(data_id, "Topic Category", D(<<"tpCat", "TopicCatCd">>), "MD_TopicCategoryCode"),
      Step(data_id, "Other Keywords", "other_keys", D(<<"otherKeys">>), ""),
      T(contact, "Contact Individual Name", P("rpIndName")),
      T(contact, "Contact Organisation Name", P("rpOrgName")),
      T(contact, "Contact Position Name", P("rpPosName")),
      T(address, "Contact Email Address", P("eMailAdd")),
      T(address, "Contact Delivery Point", P("delPoint")),
      T(address, "Contact City", P("city")),
      T(address, "Contact Administrative Area", P("adminArea")),
      T(address, "Contact Postal Code", P("postCode")),
      T(address, "Contact Country", P("country")),
      T(cnt_info, "Contact Phone Number", D(<<"cntPhone", "voiceNum">>)),
      T(cnt_info, "Contact Online Resource", D(<<"cntOnlineRes", "linkage">>)),
      T(cnt_info, "Contact Hours", D(<<"cntHours">>)),
      T(cnt_info, "Contact Instructions", D(<<"cntInstr">>)),
      C(contact, "Contact Role", D(<<"role", "RoleCd">>), "CI_RoleCode"),
      T(enttyp, "Entity Type Label", P("enttypl")),
      T(enttyp, "Entity Type Type", P("enttypt")),
      T(enttyp, "Entity Type Count", P("enttypc")),
      Step(eainfo, "Attribute Names", "attr_names", D(<<"attr">>), ""),
      C(spat_rep_info, "Topology Level", D(<<"topLvl", "TopoLevCd">>),
        "MD_TopologyLevelCode"),
      C(geo_objs, "Geometry Object Type", D(<<"geoObjTyp", "GeoObjTypCd">>),
        "MD_GeometricObjectTypeCode"),
      T(geo_objs, "Geometry Object Count", D(<<"geoObjCnt">>)),
      A(ref_sys, "Reference System Code", P("identCode"), "code"),
      T(ref_sys, "Reference System Code Space", P("idCodeSpace")),
      T(ref_sys, "Reference System Version", P("idVersion")),
      C(dq_info, "Data Quality Scope Level", D(<<"scpLvl", "ScopeCd">>), "MD_ScopeCode"),
      T(dq_info, "Lineage Statement", D(<<"dataLineage", "statement">>)),
      Step(report_, "Quality Report Type", "self_attr", P(""), "type"),
      T(report_, "Conformance Specification Title", D(<<"conSpec", "resTitle">>)),
      T(report_, "Conformance Pass", D(<<"conPass">>)),
      T(online_src, "Distribution Online Resource Linkage", P("linkage")),
      T(online_src, "Distribution Protocol", P("protocol")),
      T(online_src, "Distribution Online Resource Name", P("orName")),
      T(online_src, "Distribution Online Resource Description", P("orDesc")),
      C(md_maint, "Metadata Maintenance Frequency", D(<<"maintFreq", "MaintFreqCd">>),
        "MD_MaintenanceFrequencyCode"),
      A(md_lang, "Metadata Language Code", P("languageCode"), "value"),
      A(md_lang, "Metadata Country Code", P("countryCode"), "value"),
      C(md_hr_lv, "Metadata Scope Code", P("ScopeCd"), "MD_ScopeCode"),
      T(root, "Metadata Hierarchy Level Name", D(<<"mdHrLvName">>)),
      Step(esri_term, "Feature Name", "self_attr", P(""), "Name"),
      T(esri_term, "Feature Type", P("efeatyp")),
      Step(esri_term, "Feature Geometry Code", "attr_code", P("efeageom"),
           "MD_GeometricObjectTypeCode"),
      T(root, "Metadata Standard Name", D(<<"mdStanName">>)),
      T(root, "Metadata Standard Version", D(<<"mdStanVer">>)),
      T(root, "Metadata File ID", D(<<"mdFileID">>)),
      C(md_char, "Metadata Character Set", P("CharSetCd"), "MD_CharacterSetCode"),
      T(root, "Metadata Date Stamp", D(<<"mdDateSt">>))
    >>

RECURSIVE AllCalls(_, _, _)
\* the calls of the statements lo..hi in source order (the range is split in
\* halves to keep the evaluation flat)
AllCalls(calls, lo, hi) ==
    IF lo > hi THEN <<>>
    ELSE IF lo = hi THEN calls[lo]
    ELSE AllCalls(calls, lo, (lo + hi) \div 2) \o AllCalls(calls, (lo + hi) \div 2 + 1, hi)

RECURSIVE AddRange(_, _, _, _)
\* fields after the add_field calls all[lo..hi] are applied one after the other
AddRange(all, fields, lo, hi) ==
    IF lo > hi THEN fields
    ELSE IF lo = hi THEN add_field(fields, all[lo][1], all[lo][2])
    ELSE LET left == AddRange(all, fields, lo, (lo + hi) \div 2)
         IN  IF Len(left) >= 0
             THEN AddRange(all, left, (lo + hi) \div 2 + 1, hi)
             ELSE left

\* the OrderedDict the add_field calls build, starting from an empty one
AddFields(all) == AddRange(all, <<>>, 1, Len(all))

\* extract_all_fields with a handler around each lookup: a lookup that
\* raises adds nothing and the walk goes on
extract_all_fields_handled(root, raises) ==
    LET node == [k \in 1..Len(ExtractSteps) |-> Locate(root, ExtractSteps[k].ctx)]
        calls == [k \in 1..Len(ExtractSteps) |->
                    IF node[k] # None /\ ExtractSteps[k].name \notin raises
                    THEN Calls(ExtractSteps[k], node[k]) ELSE <<>>]
    IN  [exc |-> FALSE, fields |-> AddFields(AllCalls(calls, 1, Len(ExtractSteps)))]

\* extract_all_fields(root): [exc |-> FALSE, fields |-> the mapping], or
\* [exc |-> TRUE] when a statement that is executed raises.  raises names the
\* fields whose lookup raises on this document; the function has no handler.
\* A statement is executed when the containers that guard it exist.
extract_all_fields(root, raises) ==
    LET node == [k \in 1..Len(ExtractSteps) |-> Locate(root, ExtractSteps[k].ctx)]
        calls == [k \in 1..Len(ExtractSteps) |->
                    IF node[k] # None
                    THEN Calls(ExtractSteps[k], node[k]) ELSE <<>>]
    IN  IF \E k \in 1..Len(ExtractSteps) :
              node[k] # None /\ ExtractSteps[k].name \in raises
        THEN [exc |-> TRUE, fields |-> <<>>]
        ELSE [exc |-> FALSE, fields |-> AddFields(AllCalls(calls, 1, Len(ExtractSteps)))]

(***************************************************************************)
(* extract_metadata.py: the batch and the compliance summary               *)
(***************************************************************************)
\* Python None where a dict is expected
NoneDict == ("#None" :> "#None")

\* compute_compliance without the .strip() of the value
compute_compliance_unstripped(data, names) ==
    LET mandatory_fields ==
            SelectSeq(names, LAMBDA fn : get_field_obligation(fn) = "mandatory")
        filenames == Sorted(DOMAIN data)
        RowOf(filename) ==
            LET fields == data[filename]
                missing == SelectSeq(mandatory_fields,
                                     LAMBDA fn : FieldGet(fields, fn) = "")
            IN  [Filename |-> filename,
                 Compliant |-> IF Len(missing) = 0 THEN "Yes" ELSE "No",
                 MissingMandatory |-> IF Len(missing) # 0 THEN Join(", ", missing) ELSE "",
                 MissingCount |-> Len(missing)]
    IN  [i \in 1..Len(filenames) |-> RowOf(filenames[i])]

\* compute_compliance(all_data, field_names): one row per file, sorted by
\* filename
compute_compliance(data, names) ==
    LET mandatory_fields ==
            SelectSeq(names, LAMBDA fn : get_field_obligation(fn) = "mandatory")
        filenames == Sorted(DOMAIN data)
        RowOf(filename) ==
            LET fields == data[filename]
                missing == SelectSeq(mandatory_fields,
                                     LAMBDA fn : Strip(FieldGet(fields, fn)) = "")
            IN  [Filename |-> filename,
                 Compliant |-> IF Len(missing) = 0 THEN "Yes" ELSE "No",
                 MissingMandatory |-> IF Len(missing) # 0 THEN Join(", ", missing) ELSE "",
                 MissingCount |-> Len(missing)]
    IN  [i \in 1..Len(filenames) |-> RowOf(filenames[i])]

(***************************************************************************)
(* Input documents                                                         *)
(***************************************************************************)
\* a vendor-flattened document that carries every field of the catalog
FullVendor ==
    Elem("metadata", "", <<
      Elem("Esri", "", <<
        Elem("ArcGISFormat", "1.0", <<>>),
        Elem("ArcGISProfile", "ISO19139", <<>>),
        Elem("CreaDate", "20200101", <<>>),
        Elem("CreaTime", "10", <<>>),
        Elem("ModDate", "20210101", <<>>),
        Elem("ModTime", "11", <<>>),
        Elem("DataProperties", "", <<
          Elem("itemProps", "", <<
            Elem("itemName", "soil", <<>>),
            Elem("imsContentType", "002", <<>>),
            Elem("nativeExtBox", "", <<
              Elem("westBL", "1", <<>>),
              Elem("eastBL", "2", <<>>),
              Elem("southBL", "3", <<>>),
              Elem("northBL", "4", <<>>) >>),
            Elem("portalDetails", "", <<
              Elem("thumbnailURL", "t.png", <<>>) >>) >>),
          Elem("coordRef", "", <<
            Elem("type", "Projected", <<>>),
            Elem("geogcsn", "OSGB", <<>>),
            Elem("projcsn", "BNG", <<>>),
            Elem("csUnits", "m", <<>>) >>) >>),
        Elem("scaleRange", "", <<
          Elem("minScale", "1", <<>>),
          Elem("maxScale", "9", <<>>) >>) >>),
      Elem("dataIdInfo", "", <<
        Elem("idAbs", "<p>Soils &amp; land</p>", <<>>),
        Elem("idCitation", "", <<
          Elem("resTitle", "Soil map", <<>>),
          Elem("resAltTitle", "NATMAP", <<>>),
          Elem("collTitle", "LandIS", <<>>),
          Elem("date", "", <<
            Elem("pubDate", "2020", <<>>) >>),
          Elem("presForm", "", <<
            ElemA("PresFormCd", << <<"value", "005">> >>, "", <<>>, "") >>) >>),
        Elem("dataExt", "", <<
          Elem("exDesc", "England", <<>>),
          Elem("geoEle", "", <<
            Elem("GeoBndBox", "", <<
              Elem("westBL", "-6", <<>>),
              Elem("eastBL", "2", <<>>),
              Elem("northBL", "56", <<>>),
              Elem("southBL", "49", <<>>) >>) >>) >>),
        Elem("searchKeys", "", <<
          Elem("keyword", "Soil", <<>>),
          Elem("keyword", "Land use", <<>>),
          Elem("keyword", "", <<>>),
          Elem("keyword", "England", <<>>) >>),
        Elem("idPurp", "Planning", <<>>),
        Elem("idCredit", "Cranfield", <<>>),
        Elem("resConst", "", <<
          Elem("Consts", "", <<
            Elem("useLimit", "No  limits", <<>>) >>) >>),
        Elem("resConst", "", <<
          Elem("LegConsts", "", <<
            Elem("accessConsts", "", <<
              ElemA("RestrictCd", << <<"value", "005">> >>, "", <<>>, "") >>),
            Elem("othConsts", "OGL", <<>>) >>) >>),
        Elem("dataLang", "", <<
          ElemA("languageCode", << <<"value", "eng">> >>, "", <<>>, ""),
          ElemA("countryCode", << <<"value", "GB">> >>, "", <<>>, "") >>),
        Elem("dataChar", "", <<
          ElemA("CharSetCd", << <<"value", "004">> >>, "", <<>>, "") >>),
        Elem("spatRpType", "", <<
          ElemA("SpatRepTypCd", << <<"value", "001">> >>, "", <<>>, "") >>),
        Elem("dataScale", "", <<
          Elem("equScale", "", <<
            Elem("rfDenom", "250000", <<>>) >>) >>),
        Elem("envirDesc", "Windows", <<>>),
        Elem("idStatus", "", <<
          ElemA("ProgCd", << <<"codeListValue", "completed">> >>, "", <<>>, "") >>),
        Elem("graphOver", "", <<
          Elem("bgFileName", "g.png", <<>>),
          Elem("bgFileDesc", "thumb", <<>>),
          Elem("bgFileType", "PNG", <<>>) >>),
        Elem("resMaint", "", <<
          Elem("maintFreq", "", <<
            ElemA("MaintFreqCd", << <<"value", "009">> >>, "", <<>>, "") >>) >>),
        Elem("tpCat", "", <<
          ElemA("TopicCatCd", << <<"value", "008">> >>, "", <<>>, "") >>),
        Elem("otherKeys", "", <<
          Elem("thesaName", "", <<
            Elem("resTitle", "GEMET", <<>>) >>),
          Elem("keyword", "soil", <<>>),
          Elem("keyword", "land", <<>>) >>),
        Elem("otherKeys", "", <<
          Elem("keyword", "misc", <<>>) >>),
        Elem("otherKeys", "", <<
          Elem("thesaName", "", <<
            Elem("resTitle", "GEMET", <<>>) >>),
          Elem("keyword", "more", <<>>) >>) >>),
      Elem("mdContact", "", <<
        Elem("rpIndName", "S H", <<>>),
        Elem("rpOrgName", "Cranfield", <<>>),
        Elem("rpPosName", "Prof", <<>>),
        Elem("rpCntInfo", "", <<
          Elem("cntAddress", "", <<
            Elem("eMailAdd", "a@b.uk", <<>>),
            Elem("delPoint", "Bld 1", <<>>),
            Elem("city", "Cranfield", <<>>),
            Elem("adminArea", "Beds", <<>>),
            Elem("postCode", "MK43", <<>>),
            Elem("country", "UK", <<>>) >>),
          Elem("cntPhone", "", <<
            Elem("voiceNum", "123", <<>>) >>),
          Elem("cntOnlineRes", "", <<
            Elem("linkage", "http://c.uk", <<>>) >>),
          Elem("cntHours", "9-5", <<>>),
          Elem("cntInstr", "email", <<>>) >>),
        Elem("role", "", <<
          ElemA("RoleCd", << <<"value", "007">> >>, "", <<>>, "") >>) >>),
      Elem("eainfo", "", <<
        Elem("detailed", "", <<
          Elem("enttyp", "", <<
            Elem("enttypl", "soil", <<>>),
            Elem("enttypt", "Feature Class", <<>>),
            Elem("enttypc", "10", <<>>) >>),
          Elem("attr", "", <<
            Elem("attrlabl", "FID", <<>>) >>),
          Elem("attr", "", <<
            Elem("attrlabl", "Shape", <<>>) >>) >>) >>),
      Elem("spatRepInfo", "", <<
        Elem("VectSpatRep", "", <<
          Elem("topLvl", "", <<
            ElemA("TopoLevCd", << <<"value", "001">> >>, "", <<>>, "") >>),
          Elem("geometObjs", "", <<
            Elem("geoObjTyp", "", <<
              ElemA("GeoObjTypCd", << <<"value", "002">> >>, "", <<>>, "") >>),
            Elem("geoObjCnt", "10", <<>>) >>) >>) >>),
      Elem("refSysInfo", "", <<
        Elem("RefSystem", "", <<
          Elem("refSysID", "", <<
            ElemA("identCode", << <<"code", "27700">> >>, "", <<>>, ""),
            Elem("idCodeSpace", "EPSG", <<>>),
            Elem("idVersion", "6.1", <<>>) >>) >>) >>),
      Elem("dqInfo", "", <<
        Elem("dqScope", "", <<
          Elem("scpLvl", "", <<
            ElemA("ScopeCd", << <<"value", "005">> >>, "", <<>>, "") >>) >>),
        Elem("dataLineage", "", <<
          Elem("statement", "Surveyed", <<>>) >>),
        ElemA("report", << <<"type", "DQConcConsis">> >>, "", <<
          Elem("measResult", "", <<
            Elem("ConResult", "", <<
              Elem("conSpec", "", <<
                Elem("resTitle", "INSPIRE", <<>>) >>),
              Elem("conPass", "1", <<>>) >>) >>) >>, "") >>),
      Elem("distInfo", "", <<
        Elem("distTranOps", "", <<
          Elem("onLineSrc", "", <<
            Elem("linkage", "http://l.uk", <<>>),
            Elem("protocol", "http", <<>>),
            Elem("orName", "site", <<>>),
            Elem("orDesc", "web", <<>>) >>) >>) >>),
      Elem("mdMaint", "", <<
        Elem("maintFreq", "", <<
          ElemA("MaintFreqCd", << <<"value", "012">> >>, "", <<>>, "") >>) >>),
      Elem("mdLang", "", <<
        ElemA("languageCode", << <<"value", "eng">> >>, "", <<>>, ""),
        ElemA("countryCode", << <<"value", "GB">> >>, "", <<>>, "") >>),
      Elem("mdHrLv", "", <<
        ElemA("ScopeCd", << <<"value", "005">> >>, "", <<>>, "") >>),
      Elem("mdHrLvName", "dataset", <<>>),
      Elem("spdoinfo", "", <<
        Elem("ptvctinf", "", <<
          ElemA("esriterm", << <<"Name", "soil">> >>, "", <<
            Elem("efeatyp", "Simple", <<>>),
            ElemA("efeageom", << <<"code", "4">> >>, "", <<>>, "") >>, "") >>) >>),
      Elem("mdStanName", "ISO 19139", <<>>),
      Elem("mdStanVer", "2003", <<>>),
      Elem("mdFileID", "id-1", <<>>),
      Elem("mdChar", "", <<
        ElemA("CharSetCd", << <<"value", "004">> >>, "", <<>>, "") >>),
      Elem("mdDateSt", "20260101", <<>>) >>)


\* a vendor-flattened document with a title, an abstract and one keyword
SmallVendor ==
    Elem("metadata", "", <<
      Elem("dataIdInfo", "", <<
        Elem("idAbs", "Soils", <<>>),
        Elem("idCitation", "", << Elem("resTitle", "Soil map", <<>>) >>),
        Elem("searchKeys", "", << Elem("keyword", "Soil", <<>>) >>) >>) >>)

\* a vendor-flattened document that carries the mandatory fields
CoreVendor ==
    Elem("metadata", "", <<
      Elem("dataIdInfo", "", <<
        Elem("idAbs", "<p>Soils &amp; land</p>", <<>>),
        Elem("idCitation", "", <<
          Elem("resTitle", "Soil map", <<>>) >>),
        Elem("dataExt", "", <<
          Elem("geoEle", "", <<
            Elem("GeoBndBox", "", <<
              Elem("westBL", "-6", <<>>),
              Elem("eastBL", "2", <<>>),
              Elem("northBL", "56", <<>>),
              Elem("southBL", "49", <<>>) >>) >>) >>),
        Elem("searchKeys", "", <<
          Elem("keyword", "Soil", <<>>),
          Elem("keyword", "", <<>>),
          Elem("keyword", "England", <<>>) >>),
        Elem("resConst", "", <<
          Elem("Consts", "", <<
            Elem("useLimit", "No  limits", <<>>) >>) >>),
        Elem("resConst", "", <<
          Elem("LegConsts", "", <<
            Elem("accessConsts", "", <<
              ElemA("RestrictCd", << <<"value", "005">> >>, "", <<>>, "") >>),
            Elem("othConsts", "OGL", <<>>) >>) >>),
        Elem("dataLang", "", <<
          ElemA("languageCode", << <<"value", "eng">> >>, "", <<>>, "") >>),
        Elem("dataScale", "", <<
          Elem("equScale", "", <<
            Elem("rfDenom", "250000", <<>>) >>) >>),
        Elem("tpCat", "", <<
          ElemA("TopicCatCd", << <<"value", "008">> >>, "", <<>>, "") >>) >>),
      Elem("mdContact", "", <<
        Elem("rpOrgName", "Cranfield", <<>>),
        Elem("rpCntInfo", "", <<
          Elem("cntAddress", "", <<
            Elem("eMailAdd", "a@b.uk", <<>>) >>) >>),
        Elem("role", "", <<
          ElemA("RoleCd", << <<"value", "007">> >>, "", <<>>, "") >>) >>),
      Elem("dqInfo", "", <<
        Elem("dqScope", "", <<
          Elem("scpLvl", "", <<
            ElemA("ScopeCd", << <<"value", "005">> >>, "", <<>>, "") >>) >>),
        Elem("dataLineage", "", <<
          Elem("statement", "Surveyed", <<>>) >>),
        ElemA("report", << <<"type", "DQConcConsis">> >>, "", <<
          Elem("measResult", "", <<
            Elem("ConResult", "", <<
              Elem("conSpec", "", <<
                Elem("resTitle", "INSPIRE", <<>>) >>),
              Elem("conPass", "1", <<>>) >>) >>) >>, "") >>),
      Elem("distInfo", "", <<
        Elem("distTranOps", "", <<
          Elem("onLineSrc", "", <<
            Elem("linkage", "http://l.uk", <<>>) >>) >>) >>),
      Elem("mdLang", "", <<
        ElemA("languageCode", << <<"value", "eng">> >>, "", <<>>, "") >>),
      Elem("mdHrLv", "", <<
        ElemA("ScopeCd", << <<"value", "005">> >>, "", <<>>, "") >>),
      Elem("mdDateSt", "20260101", <<>>) >>)

\* a vendor-flattened document whose keyword container (searchKeys) holds
\* one keyword node per text, in order
KeywordDoc(texts) ==
    Elem("metadata", "", <<
      Elem("dataIdInfo", "", <<
        Elem("idCitation", "", << Elem("resTitle", "Soil map", <<>>) >>),
        Elem("searchKeys", "",
             [i \in 1..Len(texts) |-> Elem("keyword", texts[i], <<>>)])
      >>)
    >>)

\* a vendor-flattened document with one otherKeys group per entry of groups,
\* in order: the thesaurus title (no thesaName node when title is "") and one
\* keyword node per text
OtherKeysDoc(groups) ==
    Elem("metadata", "", <<
      Elem("dataIdInfo", "",
           << Elem("idCitation", "", << Elem("resTitle", "Soil map", <<>>) >>) >> \o
           [g \in 1..Len(groups) |->
              Elem("otherKeys", "",
                   (IF groups[g].title = "" THEN <<>>
                    ELSE << Elem("thesaName", "",
                                 << Elem("resTitle", groups[g].title, <<>>) >>) >>) \o
                   [i \in 1..Len(groups[g].keywords) |->
                      Elem("keyword", groups[g].keywords[i], <<>>)])])
    >>)

\* the container with a languageCode node whose 'value' attribute is value,
\* no container when value is "#none"
LanguageNode(container, value) ==
    IF value = "#none" THEN <<>>
    ELSE << Elem(container, "", <<
              ElemA("languageCode", << <<"value", value>> >>, "", <<>>, "") >>) >>

\* a vendor-flattened document with the two language codes
LanguageDoc(values) ==
    Elem("metadata", "",
         << Elem("dataIdInfo", "",
                 << Elem("idCitation", "", << Elem("resTitle", "Soil map", <<>>) >>) >> \o
                 LanguageNode("dataLang", values[1])) >> \o
         LanguageNode("mdLang", values[2]))

\* the tags of the nodes whose attributes extract_all_fields resolves
CodedTags ==
    {"PresFormCd", "RestrictCd", "CharSetCd", "SpatRepTypCd", "ProgCd", "MaintFreqCd",
     "TopicCatCd", "RoleCd", "TopoLevCd", "GeoObjTypCd", "ScopeCd", "efeageom"}

RECURSIVE Recode(_, _)
\* the tree with the attributes of every coded node replaced by attrib
Recode(el, attrib) ==
    [tag |-> el.tag,
     attrib |-> IF el.tag \in CodedTags THEN attrib ELSE el.attrib,
     text |-> el.text,
     kids |-> [i \in 1..Len(el.kids) |-> Recode(el.kids[i], attrib)],
     tail |-> el.tail]

\* the full vendor document whose coded nodes all carry the attributes attrib
CodedDoc(attrib) == Recode(FullVendor, attrib)

\* a well-formed document
Xml(root) == [kind |-> "xml", root |-> root]

\* the largest number of files in the folder
MaxFiles == 2

\* file names in sorted order
FileNames == <<"a.xml", "b.xml", "c.xml", "d.xml">>

\* A file of the folder is described by the document it was written from
\* (base), the elements removed from or blanked in it (edits, applied in
\* order), and the checks or field lookups that raise on it (raises).
\* For the base "keys" edits is the sequence of the keyword texts.
\* For the base "coded" edits is the attribute list of the coded nodes.
\* For the base "groups" edits is the sequence of the otherKeys groups.
\* For the base "language" edits is the pair of the language code values.
Doc(base, edits, raises) == [base |-> base, edits |-> edits, raises |-> raises]

RECURSIVE ApplyEdits(_, _, _)
ApplyEdits(el, edits, gmd) ==
    IF Len(edits) = 0 THEN el
    ELSE LET path == IF gmd THEN GPath(edits[1][2]) ELSE edits[1][2]
             next == IF edits[1][1] = "remove" THEN RemoveAt(el, path)
                     ELSE BlankAt(el, path)
         IN  ApplyEdits(next, Tail(edits), gmd)

\* the bytes of the file, as far as ET.parse tells them apart
Content(doc) ==
    CASE doc.base = "gmd" -> Xml(ApplyEdits(FullGmd, doc.edits, TRUE))
      [] doc.base = "vendor" -> Xml(ApplyEdits(FullVendor, doc.edits, FALSE))
      [] doc.base = "core" -> Xml(ApplyEdits(CoreVendor, doc.edits, FALSE))
      [] doc.base = "small" -> Xml(ApplyEdits(SmallVendor, doc.edits, FALSE))
      [] doc.base = "keys" -> Xml(KeywordDoc(doc.edits))
      [] doc.base = "coded" -> Xml(CodedDoc(doc.edits))
      [] doc.base = "groups" -> Xml(OtherKeysDoc(doc.edits))
      [] doc.base = "language" -> Xml(LanguageDoc(doc.edits))
      [] OTHER -> [kind |-> doc.base]

\* the file at xml_path as the functions read it
ReadFile(f) == [name |-> f.name, content |-> Content(f.doc), raises |-> f.doc.raises]

IdPath == <<"identificationInfo", "MD_DataIdentification">>

\* the documents a folder may hold
FilePool ==
    { Doc("gmd", <<>>, {}),
      Doc("gmd", <<>>, {"Abstract"}),
      Doc("gmd", << <<"remove", IdPath \o <<"abstract">> >> >>, {}),
      Doc("gmd", << <<"blank", IdPath \o <<"citation", "CI_Citation", "title">> >> >>, {}),
      Doc("core", <<>>, {}),
      Doc("core", <<>>, {"Contact Role"}),
      Doc("core", << <<"remove", <<"dataIdInfo", "idAbs">> >> >>, {}),
      Doc("small", <<>>, {}),
      Doc("malformed", <<>>, {}),
      Doc("undecodable", <<>>, {}) }

\* the folders: up to MaxFiles files, named in sorted order
Folders ==
    UNION { { [i \in 1..n |-> [name |-> FileNames[i], doc |-> f[i]]] :
              f \in [1..n -> FilePool] } : n \in 0..MaxFiles }

(***************************************************************************)
(* The two scripts                                                         *)
(***************************************************************************)
Init ==
    /\ mode \in {"strict", "loose"}
    /\ exists \in BOOLEAN
    /\ files \in Folders
    /\ (~exists => files = <<>>)
    /\ pc = "main"
    /\ idx = 1
    /\ results = EmptyDict
    /\ errors = <<>>
    /\ summary = <<>>
    /\ all_data = EmptyDict
    /\ all_field_names = {}
    /\ field_names = <<>>
    /\ compliance = <<>>
    /\ report = FALSE
    /\ log = <<>>
    /\ call = NoCall
    /\ ret = Pending
    /\ registry = Registries

\* check_conformance.main up to the call of process_folder
StrictMain ==
    /\ mode = "strict" /\ pc = "main"
    /\ IF ~exists
       THEN pc' = "done" /\ log' = Append(log, <<"Error: Folder not found">>)
       ELSE IF Len(files) = 0
       THEN pc' = "done" /\ log' = Append(log, <<"No XML files found">>)
       ELSE pc' = "process_folder" /\ log' = log
    /\ UNCHANGED <<mode, exists, files, idx, results, errors, summary, all_data,
                   all_field_names, field_names, compliance, report>>
    /\ UNCHANGED <<call, ret, registry>>

\* process_folder up to its loop
ProcessFolderBegin ==
    /\ mode = "strict" /\ pc = "process_folder"
    /\ IF ~exists
       THEN /\ results' = NoneDict /\ errors' = <<"Folder not found">>
            /\ pc' = "main_results"
       ELSE IF Len(files) = 0
       THEN /\ results' = NoneDict /\ errors' = <<"No XML files found">>
            /\ pc' = "main_results"
       ELSE /\ results' = EmptyDict /\ errors' = <<>>
            /\ pc' = "loop"
    /\ idx' = 1
    /\ UNCHANGED <<mode, exists, files, summary, all_data, all_field_names,
                   field_names, compliance, report, log>>
    /\ UNCHANGED <<call, ret, registry>>

\* one iteration of process_folder's loop; an exception check_one_file lets
\* through ends the script
ProcessFolderStep ==
    /\ mode = "strict" /\ pc = "loop" /\ idx <= Len(files)
    /\ LET name == files[idx].name
           row == check_one_file(ReadFile(files[idx]), _conformance_checks)
       IN  CASE row.kind = "raise" ->
                   /\ pc' = "crashed"
                   /\ UNCHANGED <<idx, results, errors>>
             [] row.kind = "None" ->
                   /\ errors' = Append(errors, <<name, SkipReason>>)
                   /\ idx' = idx + 1
                   /\ UNCHANGED <<pc, results>>
             [] row.kind = "row" ->
                   /\ results' = Put(results, name, row.row)
                   /\ idx' = idx + 1
                   /\ UNCHANGED <<pc, errors>>
    /\ UNCHANGED <<mode, exists, files, summary, all_data, all_field_names,
                   field_names, compliance, report, log>>
    /\ UNCHANGED <<call, ret, registry>>

\* process_folder returns (results, errors)
ProcessFolderReturn ==
    /\ mode = "strict" /\ pc = "loop" /\ idx > Len(files)
    /\ pc' = "main_results"
    /\ UNCHANGED <<mode, exists, files, idx, results, errors, summary, all_data,
                   all_field_names, field_names, compliance, report, log>>
    /\ UNCHANGED <<call, ret, registry>>

\* check_conformance.main after process_folder: summary and report
StrictMainFinish ==
    /\ mode = "strict" /\ pc = "main_results"
    /\ IF results = NoneDict
       THEN /\ log' = log \o [i \in 1..Len(errors) |-> <<errors[i]>>]
            /\ UNCHANGED <<summary, report>>
       ELSE /\ summary' = compute_summary(results, _conformance_checks)
            /\ report' = TRUE
            /\ log' = log \o [i \in 1..Len(errors) |-> <<"Skipped", errors[i][1]>>]
    /\ pc' = "done"
    /\ UNCHANGED <<mode, exists, files, idx, results, errors, all_data,
                   all_field_names, field_names, compliance>>
    /\ UNCHANGED <<call, ret, registry>>

\* extract_metadata.main up to the call of process_all_xml_files
LooseMain ==
    /\ mode = "loose" /\ pc = "main"
    /\ IF ~exists
       THEN pc' = "done" /\ log' = Append(log, <<"Error: XML folder not found">>)
       ELSE pc' = "process_all" /\ log' = log
    /\ UNCHANGED <<mode, exists, files, idx, results, errors, summary, all_data,
                   all_field_names, field_names, compliance, report>>
    /\ UNCHANGED <<call, ret, registry>>

\* process_all_xml_files without the test 'if not xml_files:'
ProcessAllBegin_no_empty_test ==
    /\ mode = "loose" /\ pc = "process_all"
    /\ log' = log
    /\ all_data' = EmptyDict
    /\ pc' = "loop"
    /\ all_field_names' = {}
    /\ idx' = 1
    /\ UNCHANGED <<mode, exists, files, results, errors, summary, field_names,
                   compliance, report>>
    /\ UNCHANGED <<call, ret, registry>>

\* process_all_xml_files up to its loop
ProcessAllBegin ==
    /\ mode = "loose" /\ pc = "process_all"
    /\ IF Len(files) = 0
       THEN /\ log' = Append(log, <<"No XML files found">>)
            /\ all_data' = NoneDict
            /\ pc' = "main_data"
       ELSE /\ log' = log
            /\ all_data' = EmptyDict
            /\ pc' = "loop"
    /\ all_field_names' = {}
    /\ idx' = 1
    /\ UNCHANGED <<mode, exists, files, results, errors, summary, field_names,
                   compliance, report>>
    /\ UNCHANGED <<call, ret, registry>>

\* one iteration of the loop with a mapping that is not created anew by
\* each call of extract_all_fields: the fields of the file are added to those
\* of the file before it
ProcessAllStep_carry ==
    /\ mode = "loose" /\ pc = "loop" /\ idx <= Len(files)
    /\ \E file \in {ReadFile(files[idx])} :
       \E parsed \in {ET_parse(file.content)} :
       \E extracted \in {extract_all_fields(parsed.root, file.raises)} :
       \E before \in {IF idx > 1 /\ files[idx - 1].name \in DOMAIN all_data
                       THEN all_data[files[idx - 1].name] ELSE <<>>} :
       LET filename == file.name
       IN  IF parsed.exc = "ParseError"
           THEN /\ log' = Append(log, <<"Error parsing", filename>>)
                /\ UNCHANGED <<all_data, all_field_names>>
           ELSE IF parsed.exc # "" \/ extracted.exc
           THEN /\ log' = Append(log, <<"Error processing", filename>>)
                /\ UNCHANGED <<all_data, all_field_names>>
           ELSE /\ all_data' = Put(all_data, filename,
                                   AddRange(extracted.fields, before, 1,
                                            Len(extracted.fields)))
                /\ all_field_names' = all_field_names \cup FieldKeys(extracted.fields)
                /\ log' = log
    /\ idx' = idx + 1
    /\ UNCHANGED <<mode, exists, files, pc, results, errors, summary, field_names,
                   compliance, report>>
    /\ UNCHANGED <<call, ret, registry>>

\* one iteration of process_all_xml_files' loop
ProcessAllStep ==
    /\ mode = "loose" /\ pc = "loop" /\ idx <= Len(files)
    /\ \E file \in {ReadFile(files[idx])} :
       \E parsed \in {ET_parse(file.content)} :
       \E extracted \in {extract_all_fields(parsed.root, file.raises)} :
       LET filename == file.name
       IN  IF parsed.exc = "ParseError"
           THEN /\ log' = Append(log, <<"Error parsing", filename>>)
                /\ UNCHANGED <<all_data, all_field_names>>
           ELSE IF parsed.exc # "" \/ extracted.exc
           THEN /\ log' = Append(log, <<"Error processing", filename>>)
                /\ UNCHANGED <<all_data, all_field_names>>
           ELSE /\ all_data' = Put(all_data, filename, extracted.fields)
                /\ all_field_names' = all_field_names \cup FieldKeys(extracted.fields)
                /\ log' = log
    /\ idx' = idx + 1
    /\ UNCHANGED <<mode, exists, files, pc, results, errors, summary, field_names,
                   compliance, report>>
    /\ UNCHANGED <<call, ret, registry>>

\* process_all_xml_files returns (all_data, sorted_field_names)
ProcessAllReturn ==
    /\ mode = "loose" /\ pc = "loop" /\ idx > Len(files)
    /\ field_names' = Sorted(all_field_names)
    /\ pc' = "main_data"
    /\ UNCHANGED <<mode, exists, files, idx, results, errors, summary, all_data,
                   all_field_names, compliance, report, log>>
    /\ UNCHANGED <<call, ret, registry>>

\* extract_metadata.main after process_all_xml_files: create_excel_matrix
\* computes the compliance summary and saves the workbook
LooseMainFinish ==
    /\ mode = "loose" /\ pc = "main_data"
    /\ IF all_data = NoneDict
       THEN UNCHANGED <<compliance, report>>
       ELSE /\ compliance' = compute_compliance(all_data, field_names)
            /\ report' = TRUE
    /\ pc' = "done"
    /\ UNCHANGED <<mode, exists, files, idx, results, errors, summary, all_data,
                   all_field_names, field_names, log>>
    /\ UNCHANGED <<call, ret, registry>>

Next ==
    \/ StrictMain
    \/ ProcessFolderBegin
    \/ ProcessFolderStep
    \/ ProcessFolderReturn
    \/ StrictMainFinish
    \/ LooseMain
    \/ ProcessAllBegin
    \/ ProcessAllStep
    \/ ProcessAllReturn
    \/ LooseMainFinish

Spec == Init /\ [][Next]_vars

(***************************************************************************)
(* Properties of the strict script                                         *)
(***************************************************************************)
\* the files process_folder or process_all_xml_files has dealt with
Handled == {i \in 1..Len(files) : i < idx}

\* the file is a well-formed document
IsXml(f) == Content(f.doc).kind = "xml"

\* the file is a well-formed document with the root gmd:MD_Metadata
IsGmd(f) == IsXml(f) /\ Content(f.doc).root.tag = _tag(GMD, "MD_Metadata")

\* the names of the mandatory checks in catalog order
MandatoryChecks ==
    LET m == SelectSeq(_conformance_checks, LAMBDA c : c.obligation = "mandatory")
    IN  [i \in 1..Len(m) |-> m[i].name]

\* the names of the checks of the catalog
CheckNames == {_conformance_checks[k].name : k \in 1..Len(_conformance_checks)}

\* C1: in the strict summary every classified file has one row; the row says
\* Conformant "Yes" exactly when every mandatory check of the file is Present,
\* its missing list is exactly the mandatory checks that are Empty or Absent
\* (in catalog order) and its count their number; a file with every mandatory
\* check Present has an empty missing list and count 0.
C1_StrictVerdict ==
    (mode = "strict" /\ pc = "done" /\ report) =>
        /\ {summary[i].Filename : i \in 1..Len(summary)} = DOMAIN results
        /\ \A i \in 1..Len(summary) :
              LET s == summary[i]
                  row == results[s.Filename]
                  allPresent == \A k \in 1..Len(MandatoryChecks) :
                                    row[MandatoryChecks[k]] = "Present"
                  missing == SelectSeq(MandatoryChecks,
                                       LAMBDA n : row[n] \in {"Empty", "Absent"})
              IN  /\ s.Conformant \in {"Yes", "No"}
                  /\ (s.Conformant = "Yes") <=> allPresent
                  /\ s.MissingMandatory = Join(", ", missing)
                  /\ s.MissingCount = Len(missing)
                  /\ allPresent => (s.MissingMandatory = "" /\ s.MissingCount = 0)

\* a report with a conformant file, a file with an Empty mandatory check and
\* the summary rows of both
C1_Witness ==
    /\ mode = "strict" /\ pc = "done" /\ report
    /\ \E i \in 1..Len(summary) :
          summary[i].Conformant = "Yes" /\ summary[i].MissingCount = 0
    /\ \E i \in 1..Len(summary) :
          /\ summary[i].Conformant = "No"
          /\ \E n \in DOMAIN results[summary[i].Filename] :
                results[summary[i].Filename][n] = "Empty"

\* C6: a well-formed file whose root is not gmd:MD_Metadata, once handled by
\* process_folder, has exactly one entry in errors with a non-empty reason,
\* no entry in results and no row in the summary.
C6_DialectSkip ==
    mode = "strict" =>
        \A i \in Handled :
            (IsXml(files[i]) /\ ~IsGmd(files[i])) =>
                /\ files[i].name \notin DOMAIN results
                /\ Cardinality({k \in 1..Len(errors) : errors[k][1] = files[i].name}) = 1
                /\ \A k \in 1..Len(errors) :
                      errors[k][1] = files[i].name => errors[k][2] # ""
                /\ \A k \in 1..Len(summary) : summary[k].Filename # files[i].name

\* a finished strict run over a vendor document and a classified document
C6_Witness ==
    /\ mode = "strict" /\ pc = "done" /\ report
    /\ \E i \in Handled : IsXml(files[i]) /\ ~IsGmd(files[i])
    /\ Len(summary) > 0 /\ Len(errors) > 0

\* C9: check_one_file on a gmd:MD_Metadata document gives an entry for every
\* check of the catalog, each Present, Empty or Absent; a check whose finder
\* raises is Absent, every other check has the result it has on the same
\* document when nothing raises, and the exception does not leave
\* check_one_file.
C9_CheckExceptionIsAbsent ==
    mode = "strict" =>
        /\ \A i \in Handled :
              IsGmd(files[i]) =>
                  /\ files[i].name \in DOMAIN results
                  /\ DOMAIN results[files[i].name] = CheckNames
                  /\ \A n \in CheckNames :
                        /\ results[files[i].name][n] \in {"Present", "Empty", "Absent"}
                        /\ n \in files[i].doc.raises =>
                              results[files[i].name][n] = "Absent"
                        /\ n \notin files[i].doc.raises =>
                              results[files[i].name][n] =
                                  Finder(CHOOSE c \in Range(_conformance_checks) : c.name = n,
                                         Content(files[i].doc).root)
        /\ pc = "crashed" => ~IsGmd(files[idx])

\* a handled gmd document on which the finder of Abstract raised while the
\* other checks were evaluated
C9_Witness ==
    /\ mode = "strict"
    /\ \E i \in Handled :
          /\ IsGmd(files[i])
          /\ files[i].doc.raises # {}
          /\ files[i].name \in DOMAIN results
          /\ results[files[i].name]["Abstract"] = "Absent"
          /\ results[files[i].name]["Resource Title"] = "Present"

\* C7: every file process_folder has handled is in exactly one of results
\* and errors, and when the strict run over a folder of files ends the rows
\* and the skip records together are as many as the files.
C7_OneOutcomePerFile ==
    (mode = "strict" /\ exists /\ Len(files) > 0) =>
        /\ \A i \in Handled :
              (files[i].name \in DOMAIN results)
                  # (\E k \in 1..Len(errors) : errors[k][1] = files[i].name)
        /\ pc \in {"main_results", "done", "crashed"} =>
              Cardinality(DOMAIN results) + Len(errors) = Len(files)

\* the file is a document on which a field lookup of extract_all_fields raises
Raising(f) ==
    /\ f.doc.raises # {}
    /\ IsXml(f)
    /\ \E k \in 1..Len(ExtractSteps) :
          /\ ExtractSteps[k].name \in f.doc.raises
          /\ Locate(Content(f.doc).root, ExtractSteps[k].ctx) # None

\* C8: in both drivers a document that fails to parse or to extract does not
\* end the batch; the failing document leaves no status row or field mapping
\* and every other document has the result it has on its own.
C8_FailureIsolation ==
    /\ pc # "crashed"
    /\ (pc = "done" /\ exists /\ Len(files) > 0) =>
          \A i \in 1..Len(files) :
              LET f == files[i]
                  root == Content(f.doc).root
              IN  /\ (mode = "strict" /\ ~IsXml(f)) => f.name \notin DOMAIN results
                  /\ (mode = "strict" /\ IsGmd(f)) =>
                        /\ f.name \in DOMAIN results
                        /\ results[f.name] =
                              check_one_file(ReadFile(f), _conformance_checks).row
                  /\ (mode = "loose" /\ (~IsXml(f) \/ Raising(f))) =>
                        f.name \notin DOMAIN all_data
                  /\ (mode = "loose" /\ IsXml(f) /\ ~Raising(f)) =>
                        /\ f.name \in DOMAIN all_data
                        /\ all_data[f.name] = extract_all_fields(root, {}).fields

(***************************************************************************)
(* Properties of the loose script                                          *)
(***************************************************************************)
\* the field names that FIELD_OBLIGATION marks mandatory
MandatoryFields == {fn \in DOMAIN FIELD_OBLIGATION : FIELD_OBLIGATION[fn] = "mandatory"}

\* C2: in the loose report a file is Compliant "Yes" only if every field that
\* FIELD_OBLIGATION marks mandatory is in the file's fields with a non-blank
\* value; a file that lacks one is Compliant "No" and its missing list names
\* the field, whatever the other files of the batch contain.
C2_LooseVerdict ==
    (mode = "loose" /\ pc = "done" /\ report) =>
        \A k \in 1..Len(compliance) :
            LET row == compliance[k]
                fields == all_data[row.Filename]
                missing == {fn \in MandatoryFields : Strip(FieldGet(fields, fn)) = ""}
            IN  /\ row.Compliant = "Yes" => missing = {}
                /\ missing # {} =>
                      /\ row.Compliant = "No"
                      /\ \A fn \in missing : Contains(row.MissingMandatory, fn)

\* C3: the verdict and the missing list of a document in a batch are those
\* the same document gets in the batch that holds it alone.
C3_VerdictIndependentOfBatch ==
    (mode = "loose" /\ pc = "done" /\ report) =>
        \A k \in 1..Len(compliance) :
            LET row == compliance[k]
                fields == all_data[row.Filename]
                alone == compute_compliance((row.Filename :> fields),
                                            Sorted(FieldKeys(fields)))[1]
            IN  /\ row.Compliant = alone.Compliant
                /\ row.MissingMandatory = alone.MissingMandatory
                /\ row.MissingCount = alone.MissingCount

\* C10 as stated: a handled document on which one field lookup raises has a
\* field mapping that lacks only that field, and a compliance row.
C10_OnlyTheFieldIsOmitted ==
    mode = "loose" =>
        \A i \in Handled :
            Raising(files[i]) =>
                /\ files[i].name \in DOMAIN all_data
                /\ all_data[files[i].name] =
                      SelectSeq(extract_all_fields(Content(files[i].doc).root, {}).fields,
                                LAMBDA p : p[1] \notin files[i].doc.raises)
                /\ (pc = "done" /\ report) =>
                      \E k \in 1..Len(compliance) :
                          compliance[k].Filename = files[i].name

\* C10 amended: an exception of a field lookup leaves extract_all_fields and
\* is caught by process_all_xml_files, which logs "Error processing" for the
\* file; the document gets no field mapping and no compliance row, the run
\* goes on, and the documents on which nothing raises are extracted in full.
C10_DocumentIsSkipped ==
    mode = "loose" =>
        /\ pc # "crashed"
        /\ \A i \in Handled :
              Raising(files[i]) =>
                  /\ files[i].name \notin DOMAIN all_data
                  /\ <<"Error processing", files[i].name>> \in Range(log)
                  /\ \A k \in 1..Len(compliance) :
                        compliance[k].Filename # files[i].name
        /\ (pc = "done" /\ exists) =>
              \A i \in 1..Len(files) :
                  (IsXml(files[i]) /\ ~Raising(files[i])) =>
                      /\ files[i].name \in DOMAIN all_data
                      /\ all_data[files[i].name] =
                            extract_all_fields(Content(files[i].doc).root, {}).fields

\* a finished loose run in which a lookup raised on one document and another
\* document was extracted and classified
C10_Witness ==
    /\ mode = "loose" /\ pc = "done" /\ report
    /\ \E i \in Handled : Raising(files[i]) /\ files[i].name \notin DOMAIN all_data
    /\ \E i \in Handled :
          /\ files[i].name \in DOMAIN all_data
          /\ Len(all_data[files[i].name]) > 0
    /\ Len(compliance) > 0

(***************************************************************************)
(* The strict script over one document of a family that varies the targets *)
(* of the checks                                                           *)
(***************************************************************************)
\* the bounding-box container and its four components, as local names
BBoxPath == IdPath \o <<"extent", "EX_Extent", "geographicElement",
                        "EX_GeographicBoundingBox">>

\* what is done to one target: nothing, its text emptied, or the node removed
Treatments == {"keep", "blank", "remove"}

\* the edits that treat the target at path
Treat(treatment, path) ==
    IF treatment = "keep" THEN <<>> ELSE << <<treatment, path>> >>

\* every combination of treatments of the four components, and the documents
\* without the container or without the extent
BBoxDocs ==
    { Doc("gmd",
          Treat(t[1], BBoxPath \o <<BBoxComps[1]>>)
              \o Treat(t[2], BBoxPath \o <<BBoxComps[2]>>)
              \o Treat(t[3], BBoxPath \o <<BBoxComps[3]>>)
              \o Treat(t[4], BBoxPath \o <<BBoxComps[4]>>),
          {}) : t \in [1..4 -> Treatments] }
    \cup { Doc("gmd", << <<"remove", BBoxPath>> >>, {}),
           Doc("gmd", << <<"remove", IdPath \o <<"extent">> >> >>, {}) }

\* the targets of the other checks that are treated, one at a time
TargetPaths ==
    { IdPath \o <<"descriptiveKeywords">>,
      IdPath \o <<"descriptiveKeywords", "MD_Keywords", "keyword">>,
      IdPath \o <<"resourceConstraints", "MD_Constraints", "useLimitation">>,
      IdPath \o <<"resourceConstraints", "MD_LegalConstraints", "accessConstraints">>,
      IdPath \o <<"resourceConstraints", "MD_LegalConstraints", "otherConstraints">>,
      IdPath \o <<"resourceConstraints">>,
      IdPath \o <<"abstract">>,
      IdPath \o <<"citation", "CI_Citation", "title">>,
      <<"identificationInfo">>,
      <<"distributionInfo", "MD_Distribution", "transferOptions",
        "MD_DigitalTransferOptions", "onLine", "CI_OnlineResource", "linkage">>,
      <<"distributionInfo">>,
      <<"contact", "CI_ResponsibleParty", "role">> }

TargetDocs ==
    { Doc("gmd", Treat(t, path), {}) : t \in {"blank", "remove"}, path \in TargetPaths }

CheckDocs == BBoxDocs \cup TargetDocs

InitChecks ==
    /\ mode = "strict"
    /\ exists = TRUE
    /\ files \in { << [name |-> FileNames[1], doc |-> d] >> : d \in CheckDocs }
    /\ pc = "main"
    /\ idx = 1
    /\ results = EmptyDict
    /\ errors = <<>>
    /\ summary = <<>>
    /\ all_data = EmptyDict
    /\ all_field_names = {}
    /\ field_names = <<>>
    /\ compliance = <<>>
    /\ report = FALSE
    /\ log = <<>>
    /\ call = NoCall
    /\ ret = Pending
    /\ registry = Registries

NextChecks ==
    \/ StrictMain
    \/ ProcessFolderBegin
    \/ ProcessFolderStep
    \/ ProcessFolderReturn
    \/ StrictMainFinish

SpecChecks == InitChecks /\ [][NextChecks]_vars

\* C4: the bounding-box check of a classified document is Present exactly
\* when all four components exist under the container with non-empty text;
\* otherwise it is Empty if the container resolves and Absent if it does not.
C4_BBoxStatus ==
    \A i \in Handled :
        IsGmd(files[i]) =>
            LET root == Content(files[i].doc).root
                container == _find(root, BBoxBase)
                Filled(comp) ==
                    LET el == Find(container, P(_tag(GMD, comp)))
                    IN  el # None /\ _get_text(el) # ""
                all_four == container # None
                            /\ \A k \in 1..Len(BBoxComps) : Filled(BBoxComps[k])
            IN  results[files[i].name]["Geographic bounding box"] =
                    IF all_four THEN "Present"
                    ELSE IF container # None THEN "Empty"
                    ELSE "Absent"

\* the nodes a check of the catalog looks for in a document
Targets(check, root) ==
    LET id_info == _find(root, IdInfoPath)
        dist == _find(root, << <<GMD, "distributionInfo">>, <<GMD, "MD_Distribution">> >>)
        Under(el, steps) == IF el = None THEN <<>> ELSE FindAll(el, D(steps))
    IN  CASE check.finder = "single" ->
                ChildSteps(<<root>>, PathTags(check.paths[1]))
          [] check.finder = "keywords" ->
                Under(id_info, <<_tag(GMD, "descriptiveKeywords"),
                                 _tag(GMD, "MD_Keywords"), _tag(GMD, "keyword")>>)
          [] check.finder = "use_limitation" ->
                Under(id_info, <<_tag(GMD, "useLimitation")>>)
          [] check.finder = "access_constraints" ->
                Under(id_info, <<_tag(GMD, "accessConstraints")>>)
          [] check.finder = "other_constraints" ->
                Under(id_info, <<_tag(GMD, "otherConstraints")>>)
          [] check.finder = "distribution_linkage" ->
                Under(dist, <<_tag(GMD, "linkage")>>)
          [] OTHER -> <<>>

\* C5: for every check but the bounding box, the status of a classified
\* document is Absent exactly when no target node resolves, Empty exactly
\* when a target node resolves and none has non-empty text, and Present
\* exactly when some target node has non-empty text.
C5_StatusOfEveryCheck ==
    \A i \in Handled :
        IsGmd(files[i]) =>
            \A k \in 1..Len(_conformance_checks) :
                LET check == _conformance_checks[k]
                    nodes == Targets(check, Content(files[i].doc).root)
                IN  check.finder # "bbox" =>
                        results[files[i].name][check.name] =
                            IF Len(nodes) = 0 THEN "Absent"
                            ELSE IF AnyHasValue(nodes) THEN "Present"
                            ELSE "Empty"

(***************************************************************************)
(* Properties of extract_all_fields and the codelist registry              *)
(***************************************************************************)
\* the text of the node a standard-namespaced document holds at the path of
\* local names under gmd:MD_Metadata, "" when there is none
GmdText(root, path) == _get_text(_find(root, [k \in 1..Len(path) |-> <<GMD, path[k]>>]))

\* C11: a standard-namespaced document that carries a resource title or an
\* abstract with content gets, from extract_all_fields, a mapping that holds
\* "Resource Title" or "Abstract" with that content.
C11_BothDialects ==
    mode = "loose" =>
        \A i \in Handled :
            (IsGmd(files[i]) /\ files[i].name \in DOMAIN all_data) =>
                LET root == Content(files[i].doc).root
                    fields == all_data[files[i].name]
                    title == GmdText(root, IdPath \o <<"citation", "CI_Citation", "title">>)
                    abstract == GmdText(root, IdPath \o <<"abstract">>)
                IN  /\ title # "" => FieldGet(fields, "Resource Title") = title
                    /\ abstract # "" => FieldGet(fields, "Abstract") = abstract

(***************************************************************************)
(* The loose script over one document of a family that varies the keyword  *)
(* nodes                                                                   *)
(***************************************************************************)
\* the largest number of keyword nodes in the container
MaxKeywords == 3

\* the texts a keyword node may hold: none, blank, or a keyword
KeywordTexts == {"", " ", "Soil", "Land use", "England"}

\* the documents with up to MaxKeywords keyword nodes
KeywordDocs ==
    UNION { { Doc("keys", texts, {}) : texts \in [1..n -> KeywordTexts] } :
            n \in 0..MaxKeywords }

InitFields ==
    /\ mode = "loose"
    /\ exists = TRUE
    /\ files \in { << [name |-> FileNames[1], doc |-> d] >> : d \in KeywordDocs }
    /\ pc = "main"
    /\ idx = 1
    /\ results = EmptyDict
    /\ errors = <<>>
    /\ summary = <<>>
    /\ all_data = EmptyDict
    /\ all_field_names = {}
    /\ field_names = <<>>
    /\ compliance = <<>>
    /\ report = FALSE
    /\ log = <<>>
    /\ call = NoCall
    /\ ret = Pending
    /\ registry = Registries

NextFields ==
    \/ LooseMain
    \/ ProcessAllBegin
    \/ ProcessAllStep
    \/ ProcessAllReturn
    \/ LooseMainFinish

SpecFields == InitFields /\ [][NextFields]_vars

\* the keyword texts of a document of the family that are not blank, as
\* get_text reads them, in document order
KeywordList(doc) ==
    SelectSeq([i \in 1..Len(doc.edits) |-> clean_text(doc.edits[i])], LAMBDA t : t # "")

\* C12: the mapping extracted from a document whose keyword container holds
\* the nodes k1..kn has one "Keywords" entry, the non-empty keyword texts in
\* document order joined by ", " ("Soil", "Land use", "England" give
\* "Soil, Land use, England"), and no "Keywords" entry when every keyword is
\* empty.
C12_KeywordsJoined ==
    \A i \in Handled :
        (files[i].doc.base = "keys" /\ files[i].name \in DOMAIN all_data) =>
            LET fields == all_data[files[i].name]
                list == KeywordList(files[i].doc)
                entries == SelectSeq(fields, LAMBDA pair : pair[1] = "Keywords")
            IN  /\ Len(list) = 0 => Len(entries) = 0
                /\ Len(list) # 0 =>
                      /\ Len(entries) = 1
                      /\ entries[1][2] = Join(", ", list)
                /\ files[i].doc.edits = <<"Soil", "Land use", "England">> =>
                      FieldGet(fields, "Keywords") = "Soil, Land use, England"

\* the document with the keywords "Soil", an empty node and "England" has
\* been extracted and its Keywords entry is "Soil, England"
C12_Witness ==
    \E i \in Handled :
        /\ files[i].doc = Doc("keys", <<"Soil", "", "England">>, {})
        /\ files[i].name \in DOMAIN all_data
        /\ FieldGet(all_data[files[i].name], "Keywords") = "Soil, England"

(***************************************************************************)
(* Direct calls of resolve_codelist                                        *)
(***************************************************************************)
RECURSIVE DecimalString(_)
\* str(n) for a natural number
DecimalString(n) ==
    IF n < 10 THEN CharAt(Digits, n + 1)
    ELSE DecimalString(n \div 10) \o CharAt(Digits, (n % 10) + 1)

RECURSIVE ZeroPadded(_, _)
\* the text with k zeros before it
ZeroPadded(text, k) == IF k = 0 THEN text ELSE "0" \o ZeroPadded(text, k - 1)

\* the largest number of zeros written before a number
MaxZeros == 2

\* the codes of the number tables, bare and zero-padded, each with its codelist
NumberCalls ==
    UNION { { [fn |-> "resolve_codelist",
               raw_value |-> ZeroPadded(DecimalString(n), k),
               codelist_name |-> c] :
              n \in DOMAIN _CODELISTS[c].by_num, k \in 0..MaxZeros } :
            c \in DOMAIN _CODELISTS }

\* raw values that are in no table, and names of the name tables
OtherRawValues ==
    {"999", "0", "abc", "Soil map", " 999 ", "license ", " x", "5_0", "-1", " ",
     "license", "Point Of-Contact", "custodian", "dataset"}

\* the codelist names of the other calls: three of the registry, two unknown
OtherCodelists == {"MD_RestrictionCode", "CI_RoleCode", "MD_ScopeCode", "nope", ""}

OtherCalls ==
    { [fn |-> "resolve_codelist", raw_value |-> r, codelist_name |-> c] :
      r \in OtherRawValues, c \in OtherCodelists }

InitResolve ==
    /\ mode = "library"
    /\ exists = TRUE
    /\ files = <<>>
    /\ pc = "main"
    /\ idx = 1
    /\ results = EmptyDict
    /\ errors = <<>>
    /\ summary = <<>>
    /\ all_data = EmptyDict
    /\ all_field_names = {}
    /\ field_names = <<>>
    /\ compliance = <<>>
    /\ report = FALSE
    /\ log = <<>>
    /\ call \in NumberCalls \cup OtherCalls
    /\ ret = Pending
    /\ registry = Registries

\* resolve_codelist(raw_value, codelist_name) is called and returns
ResolveCodelist ==
    /\ call.fn = "resolve_codelist" /\ ~ret.done
    /\ ret' = Returned(resolve_codelist(call.raw_value, call.codelist_name))
    /\ UNCHANGED <<mode, exists, files, pc, idx, results, errors, summary, all_data,
                   all_field_names, field_names, compliance, report, log, call, registry>>

NextResolve == ResolveCodelist

SpecResolve == InitResolve /\ [][NextResolve]_vars

\* C13: for every codelist of the registry and every number n of its number
\* table, resolve_codelist returns the number table's label of n for the bare
\* decimal string of n and for each zero-padded form of it.
C13_ZeroPadding ==
    (call.fn = "resolve_codelist" /\ ret.done) =>
        \A c \in DOMAIN _CODELISTS :
            \A n \in DOMAIN _CODELISTS[c].by_num :
                \A k \in 0..MaxZeros :
                    (call.codelist_name = c
                        /\ call.raw_value = ZeroPadded(DecimalString(n), k)) =>
                            ret.value = _CODELISTS[c].by_num[n]

\* resolve_codelist("005", "MD_RestrictionCode") has returned "Licence"
C13_Witness ==
    /\ call = [fn |-> "resolve_codelist", raw_value |-> "005",
               codelist_name |-> "MD_RestrictionCode"]
    /\ ret = Returned("Licence")

\* the raw value matches neither table of the codelist
InNoTable(raw_value, codelist_name) ==
    /\ Lower(RemoveChars(Strip(raw_value), SpaceChars \cup {"-"}))
          \notin DOMAIN _CODELISTS[codelist_name].by_name
    /\ \/ ~ParseInt(Strip(raw_value)).ok
       \/ ParseInt(Strip(raw_value)).val \notin DOMAIN _CODELISTS[codelist_name].by_num

\* C14: for a non-empty raw value, when the codelist name is not in the
\* registry or the value matches neither table of the codelist,
\* resolve_codelist returns the raw value unchanged, character for character.
C14_PassThrough ==
    (/\ call.fn = "resolve_codelist" /\ ret.done /\ call.raw_value # ""
     /\ \/ call.codelist_name \notin DOMAIN _CODELISTS
        \/ InNoTable(call.raw_value, call.codelist_name)) =>
            ret.value = call.raw_value

(***************************************************************************)
(* Direct calls of get_field_obligation                                    *)
(***************************************************************************)
\* field names that are no key of FIELD_OBLIGATION
OtherFieldNames ==
    {"", "Nope", "Abstract ", " Abstract", "Resource  Title", "Other Keywords",
     "Other Keywords (", "Other Keywords (Soil)", "Other Keywords (theme)",
     "Other Keywords (Abstract)", "Keywords (Soil)"}

\* the names get_field_obligation is called with: the keys of the table, the
\* keys in lower case, the names extract_all_fields gives its fields, others
ObligationNames ==
    DOMAIN FIELD_OBLIGATION
        \cup { Lower(k) : k \in DOMAIN FIELD_OBLIGATION }
        \cup { ExtractSteps[i].name : i \in 1..Len(ExtractSteps) }
        \cup OtherFieldNames

InitObligation ==
    /\ mode = "library"
    /\ exists = TRUE
    /\ files = <<>>
    /\ pc = "main"
    /\ idx = 1
    /\ results = EmptyDict
    /\ errors = <<>>
    /\ summary = <<>>
    /\ all_data = EmptyDict
    /\ all_field_names = {}
    /\ field_names = <<>>
    /\ compliance = <<>>
    /\ report = FALSE
    /\ log = <<>>
    /\ call \in { [fn |-> "get_field_obligation", field_name |-> name] :
                  name \in ObligationNames }
    /\ ret = Pending
    /\ registry = Registries

\* get_field_obligation(field_name) is called and returns
GetFieldObligation ==
    /\ call.fn = "get_field_obligation" /\ ~ret.done
    /\ ret' = Returned(get_field_obligation(call.field_name))
    /\ UNCHANGED <<mode, exists, files, pc, idx, results, errors, summary, all_data,
                   all_field_names, field_names, compliance, report, log, call, registry>>

NextObligation == GetFieldObligation

SpecObligation == InitObligation /\ [][NextObligation]_vars

\* C15: get_field_obligation returns the table's entry for a name that is
\* exactly a key of FIELD_OBLIGATION and "optional" for every other name,
\* the "Other Keywords (...)" names included; the result is always one of
\* "mandatory", "conditional" and "optional".
C15_Obligation ==
    (call.fn = "get_field_obligation" /\ ret.done) =>
        /\ \A k \in DOMAIN FIELD_OBLIGATION :
              call.field_name = k => ret.value = FIELD_OBLIGATION[k]
        /\ (\A k \in DOMAIN FIELD_OBLIGATION : call.field_name # k) =>
              ret.value = "optional"
        /\ StartsWith(call.field_name, "Other Keywords (") => ret.value = "optional"
        /\ ret.value \in {"mandatory", "conditional", "optional"}

\* get_field_obligation("abstract") has returned "optional"
C15_Witness ==
    /\ call = [fn |-> "get_field_obligation", field_name |-> "abstract"]
    /\ ret = Returned("optional")

(***************************************************************************)
(* Direct calls of extract_all_fields, one add_field call at a time        *)
(***************************************************************************)
\* the add_field calls of one statement; none when a container is missing
CallsAt(st, node) == IF node # None THEN Calls(st, node) ELSE <<>>

\* the add_field calls of every statement of extract_all_fields on root
StatementCalls(root) ==
    [k \in 1..Len(ExtractSteps) |->
        CallsAt(ExtractSteps[k], Locate(root, ExtractSteps[k].ctx))]

\* the statements that are executed on root and raise
RaisingSteps(root, raises) ==
    {k \in 1..Len(ExtractSteps) :
        ExtractSteps[k].name \in raises /\ Locate(root, ExtractSteps[k].ctx) # None}

\* the number of statements that run to their end: all of them, or those
\* before the first one that raises
Executed(raising) ==
    IF raising = {} THEN Len(ExtractSteps)
    ELSE (CHOOSE k \in raising : \A j \in raising : k <= j) - 1

\* the add_field calls extract_all_fields makes on root, in order, and
\* whether it then raises
ExtractTrace(root, raises) ==
    [calls |-> AllCalls(StatementCalls(root), 1, Executed(RaisingSteps(root, raises))),
     exc |-> RaisingSteps(root, raises) # {}]

\* extract_all_fields between two add_field calls: at calls made so far
Extracting(at, fields) == [done |-> FALSE, at |-> at, fields |-> fields]

\* extract_all_fields ended by an exception
Raised == [done |-> TRUE, exc |-> TRUE]

\* the documents extract_all_fields is called with
ExtractDocs ==
    { Doc("core", <<>>, {}),
      Doc("core", <<>>, {"Contact Role"}),
      Doc("core", << <<"blank", <<"dataIdInfo", "idAbs">> >> >>, {}),
      Doc("core", << <<"remove", <<"dataIdInfo", "idAbs">> >> >>, {}),
      Doc("small", <<>>, {}),
      Doc("vendor", <<>>, {}),
      Doc("gmd", <<>>, {}),
      Doc("keys", <<>>, {}),
      Doc("keys", <<"", " ">>, {}),
      Doc("keys", <<"Soil", "", "England">>, {}) }

InitExtract ==
    /\ mode = "library"
    /\ exists = TRUE
    /\ files = <<>>
    /\ pc = "main"
    /\ idx = 1
    /\ results = EmptyDict
    /\ errors = <<>>
    /\ summary = <<>>
    /\ all_data = EmptyDict
    /\ all_field_names = {}
    /\ field_names = <<>>
    /\ compliance = <<>>
    /\ report = FALSE
    /\ log = <<>>
    /\ call \in { [fn |-> "extract_all_fields", doc |-> d] : d \in ExtractDocs }
    /\ ret = Pending
    /\ registry = Registries

\* extract_all_fields is entered: fields = OrderedDict()
ExtractBegin ==
    /\ call.fn = "extract_all_fields" /\ ret = Pending
    /\ ret' = Extracting(0, <<>>)
    /\ UNCHANGED <<mode, exists, files, pc, idx, results, errors, summary, all_data,
                   all_field_names, field_names, compliance, report, log, call, registry>>

\* the next add_field call
ExtractAdd ==
    /\ call.fn = "extract_all_fields" /\ ~ret.done /\ ret # Pending
    /\ \E trace \in {ExtractTrace(Content(call.doc).root, call.doc.raises)} :
          /\ ret.at < Len(trace.calls)
          /\ ret' = Extracting(ret.at + 1,
                               add_field(ret.fields, trace.calls[ret.at + 1][1],
                                         trace.calls[ret.at + 1][2]))
    /\ UNCHANGED <<mode, exists, files, pc, idx, results, errors, summary, all_data,
                   all_field_names, field_names, compliance, report, log, call, registry>>

\* 'return fields', or the exception of a statement leaves the function
ExtractReturn ==
    /\ call.fn = "extract_all_fields" /\ ~ret.done /\ ret # Pending
    /\ \E trace \in {ExtractTrace(Content(call.doc).root, call.doc.raises)} :
          /\ ret.at = Len(trace.calls)
          /\ ret' = IF trace.exc THEN Raised ELSE Returned(ret.fields)
    /\ UNCHANGED <<mode, exists, files, pc, idx, results, errors, summary, all_data,
                   all_field_names, field_names, compliance, report, log, call, registry>>

NextExtract == ExtractBegin \/ ExtractAdd \/ ExtractReturn

SpecExtract == InitExtract /\ [][NextExtract]_vars

\* the mapping extract_all_fields holds or has returned; empty before the
\* function is entered and after an exception
FieldsNow ==
    IF "fields" \in DOMAIN ret THEN ret.fields
    ELSE IF "value" \in DOMAIN ret THEN ret.value
    ELSE <<>>

\* the add_field calls made so far
CallsSoFar ==
    LET all == ExtractTrace(Content(call.doc).root, call.doc.raises).calls
    IN  IF "fields" \in DOMAIN ret THEN SubSeq(all, 1, ret.at)
        ELSE IF "value" \in DOMAIN ret THEN all
        ELSE <<>>

\* C16: at every point during extract_all_fields and in its result every key
\* of the mapping maps to a non-empty string, and the keys are exactly the
\* field names that were given a non-empty value: a field whose value is
\* absent or empty is not in the mapping.
C16_NoEmptyValue ==
    call.fn = "extract_all_fields" =>
        /\ \A i \in 1..Len(FieldsNow) : FieldsNow[i][2] # ""
        /\ \A made \in {CallsSoFar} :
              FieldKeys(FieldsNow) =
                  {made[j][1] : j \in {j \in 1..Len(made) : made[j][2] # ""}}

\* the document whose idAbs element is empty has been extracted: add_field
\* was called with an empty Abstract and the result has no Abstract
C16_Witness ==
    /\ call.fn = "extract_all_fields"
    /\ call.doc = Doc("core", << <<"blank", <<"dataIdInfo", "idAbs">> >> >>, {})
    /\ ret.done
    /\ \E made \in {CallsSoFar} : \E j \in 1..Len(made) : made[j] = <<"Abstract", "">>
    /\ ~HasField(ret.value, "Abstract")
    /\ HasField(ret.value, "Resource Title")

\* the mapping extract_all_fields returns for the document of f when it is
\* the only document extracted
ExtractedAlone(f) == extract_all_fields(Content(f.doc).root, f.doc.raises).fields

C18_StrictCatalogOrder ==
    (mode = "strict" /\ pc = "done" /\ report) =>
        \A i \in 1..Len(summary) :
            \E missing \in {SelectSeq(MandatoryChecks,
                               LAMBDA n : results[summary[i].Filename][n] # "Present")} :
                /\ summary[i].MissingMandatory = Join(", ", missing)
                /\ missing # Sorted(Range(missing)) =>
                      summary[i].MissingMandatory # Join(", ", Sorted(Range(missing)))

\* a summary row whose list starts with Resource Title, then Abstract
C18_Witness ==
    /\ mode = "strict" /\ pc = "done" /\ report
    /\ \E i \in 1..Len(summary) :
          /\ summary[i].MissingCount >= 2
          /\ StartsWith(summary[i].MissingMandatory, "Resource Title, Abstract, ")

\* the keys of FIELD_OBLIGATION in the order the table defines them
FieldCatalog ==
    <<"Resource Title", "Abstract", "Topic Category", "Keywords",
      "Geographic West Bounding Longitude", "Geographic East Bounding Longitude",
      "Geographic North Bounding Latitude", "Geographic South Bounding Latitude",
      "Data Language", "Scale Denominator", "Contact Organisation Name",
      "Contact Email Address", "Contact Role", "Distribution Online Resource Linkage",
      "Lineage Statement", "Data Quality Scope Level", "Metadata Language Code",
      "Metadata Date Stamp", "Metadata Scope Code", "Access Constraints",
      "Conformance Specification Title", "Conformance Pass", "Publication Date",
      "Reference System Code", "Reference System Code Space", "Other Constraints",
      "Use Limitation">>

\* the mandatory field names of the batch that the file lacks, in the order
\* of the field catalog
MissingInCatalogOrder(filename) ==
    SelectSeq(FieldCatalog,
              LAMBDA fn : /\ fn \in Range(field_names)
                          /\ get_field_obligation(fn) = "mandatory"
                          /\ Strip(FieldGet(all_data[filename], fn)) = "")

\* C19: the missing-mandatory list of every loose compliance row names the
\* missing fields in the order in which the field catalog defines them, not
\* in alphabetical order.
C19_LooseCatalogOrder ==
    (mode = "loose" /\ pc = "done" /\ report) =>
        \A i \in 1..Len(compliance) :
            \E missing \in {MissingInCatalogOrder(compliance[i].Filename)} :
                /\ compliance[i].MissingMandatory = Join(", ", missing)
                /\ missing # Sorted(Range(missing)) =>
                      compliance[i].MissingMandatory # Join(", ", Sorted(Range(missing)))

\* C20: when the folder exists and holds no .xml file, each script reports
\* "No XML files found" once, never enters its loop over the files, holds no
\* result of any document and ends without writing a report.
C20_EmptyFolder ==
    (mode \in {"strict", "loose"} /\ exists /\ Len(files) = 0) =>
        /\ report = FALSE
        /\ pc \notin {"loop", "crashed"}
        /\ results \in {EmptyDict, NoneDict}
        /\ all_data \in {EmptyDict, NoneDict}
        /\ summary = <<>> /\ compliance = <<>>
        /\ log \in {<<>>, << <<"No XML files found">> >>}
        /\ pc = "done" => log = << <<"No XML files found">> >>

\* a script has ended on an empty folder with its one message and no report
C20_Witness ==
    /\ mode \in {"strict", "loose"} /\ exists /\ Len(files) = 0
    /\ pc = "done"
    /\ log = << <<"No XML files found">> >>
    /\ ~report

(***************************************************************************)
(* Direct calls of the library functions, one after the other              *)
(***************************************************************************)
RECURSIVE SortedNums(_)
\* sorted(by_num.keys())
SortedNums(nums) ==
    IF nums = {} THEN <<>>
    ELSE LET least == CHOOSE n \in nums : \A m \in nums : n <= m
         IN  <<least>> \o SortedNums(nums \ {least})

\* the rows of one codelist: (codelist_name, str(num), by_num[num])
TableRows(codelist_name, by_num, nums) ==
    [i \in 1..Len(nums) |-> <<codelist_name, DecimalString(nums[i]), by_num[nums[i]]>>]

RECURSIVE TableOf(_, _)
\* the rows of the codelists named, in the order of names
TableOf(codelists, names) ==
    IF Len(names) = 0 THEN <<>>
    ELSE TableRows(Head(names), codelists[Head(names)].by_num,
                   SortedNums(DOMAIN codelists[Head(names)].by_num))
             \o TableOf(codelists, Tail(names))

\* get_codelist_resolution_table() with the registry read once into codelists
ResolutionTable(codelists) == TableOf(codelists, Sorted(DOMAIN codelists))

get_codelist_resolution_table == ResolutionTable(_CODELISTS)

\* mappings compute_compliance is called with
ComplianceData ==
    ("a.xml" :> << <<"Abstract", "Soils">>, <<"Resource Title", "Soil map">>,
                   <<"Data Language", "eng">> >>)
        @@ ("b.xml" :> << <<"Resource Title", "Land map">>, <<"Data Language", " ">> >>)

\* the calls that are made: every function that reads a registry
LibraryCalls ==
    OtherCalls
        \cup { [fn |-> "get_field_obligation", field_name |-> name] :
               name \in OtherFieldNames \cup {"Abstract", "Publication Date"} }
        \cup { [fn |-> "extract_all_fields", doc |-> d] :
               d \in {Doc("core", <<>>, {}), Doc("small", <<>>, {}),
                      Doc("keys", <<"Soil", "", "England">>, {})} }
        \cup { [fn |-> "compute_compliance", all_data |-> ComplianceData,
                field_names |-> names] :
               names \in {<<"Abstract", "Data Language", "Resource Title">>, <<>>} }
        \cup { [fn |-> "get_codelist_resolution_table"] }

\* what the call returns, the tables being reg
ResultOf(c, reg) ==
    CASE c.fn = "resolve_codelist" ->
            IF c.raw_value = "" THEN ""
            ELSE ResolveIn(Strip(c.raw_value), c.codelist_name, reg.codelists)
      [] c.fn = "get_field_obligation" -> get_field_obligation(c.field_name)
      [] c.fn = "extract_all_fields" ->
            extract_all_fields(Content(c.doc).root, c.doc.raises).fields
      [] c.fn = "compute_compliance" -> compute_compliance(c.all_data, c.field_names)
      [] c.fn = "get_codelist_resolution_table" -> ResolutionTable(reg.codelists)

InitLibrary ==
    /\ mode = "library"
    /\ exists = TRUE
    /\ files = <<>>
    /\ pc = "main"
    /\ idx = 1
    /\ results = EmptyDict
    /\ errors = <<>>
    /\ summary = <<>>
    /\ all_data = EmptyDict
    /\ all_field_names = {}
    /\ field_names = <<>>
    /\ compliance = <<>>
    /\ report = FALSE
    /\ log = <<>>
    /\ call = NoCall
    /\ ret = Pending
    /\ registry = Registries

\* the next function is called, whatever was called before
LibraryCall ==
    /\ call = NoCall \/ ret.done
    /\ call' \in LibraryCalls
    /\ ret' = Pending
    /\ UNCHANGED <<mode, exists, files, pc, idx, results, errors, summary, all_data,
                   all_field_names, field_names, compliance, report, log, registry>>

\* the function returns and stores the label it found under the raw value
LibraryReturn_caching ==
    /\ call # NoCall /\ ~ret.done
    /\ ret' = Returned(ResultOf(call, registry))
    /\ IF call.fn = "resolve_codelist" /\ call.codelist_name \in DOMAIN registry.codelists
       THEN registry' =
               [registry EXCEPT !.codelists[call.codelist_name].by_name =
                   Put(@, call.raw_value, ResultOf(call, registry))]
       ELSE UNCHANGED registry
    /\ UNCHANGED <<mode, exists, files, pc, idx, results, errors, summary, all_data,
                   all_field_names, field_names, compliance, report, log, call>>

\* the function returns; none of the functions assigns to a registry
LibraryReturn ==
    /\ call # NoCall /\ ~ret.done
    /\ ret' = Returned(ResultOf(call, registry))
    /\ UNCHANGED <<mode, exists, files, pc, idx, results, errors, summary, all_data,
                   all_field_names, field_names, compliance, report, log, call,
                   registry>>

NextLibrary == LibraryCall \/ LibraryReturn

SpecLibrary == InitLibrary /\ [][NextLibrary]_vars

\* C21: whatever calls of resolve_codelist, get_field_obligation,
\* extract_all_fields, compute_compliance and get_codelist_resolution_table
\* were made and in whatever order, _CODELISTS (name and number tables) and
\* FIELD_OBLIGATION hold what they held when the module was loaded.
C21_RegistriesReadOnly ==
    /\ registry.codelists = _CODELISTS
    /\ registry.obligation = FIELD_OBLIGATION

\* resolve_codelist has found a label in a name table and the tables are as
\* they were
C21_Witness ==
    /\ call = [fn |-> "resolve_codelist", raw_value |-> "Point Of-Contact",
               codelist_name |-> "CI_RoleCode"]
    /\ ret.done /\ ret.value # call.raw_value
    /\ registry = Registries

(***************************************************************************)
(* Direct calls of get_text                                                *)
(***************************************************************************)
\* the most children an element given to get_text has
MaxKids == 2

\* the children: with or without text, with or without a tail
KidPool ==
    { ElemA("div", <<>>, text, <<>>, tail) :
      text \in {"", "Kid", " a  b "}, tail \in {"", "tail"} }

\* the elements get_text is called with: own text absent, whitespace only or
\* a word, and up to MaxKids children
TextElements ==
    UNION { { Elem("idAbs", text, kids) :
              text \in {"", " ", "Own"}, kids \in [1..n -> KidPool] } :
            n \in 0..MaxKids }

InitText ==
    /\ mode = "library"
    /\ exists = TRUE
    /\ files = <<>>
    /\ pc = "main"
    /\ idx = 1
    /\ results = EmptyDict
    /\ errors = <<>>
    /\ summary = <<>>
    /\ all_data = EmptyDict
    /\ all_field_names = {}
    /\ field_names = <<>>
    /\ compliance = <<>>
    /\ report = FALSE
    /\ log = <<>>
    /\ call \in { [fn |-> "get_text", element |-> el] : el \in TextElements }
    /\ ret = Pending
    /\ registry = Registries

\* get_text(element) is called and returns
GetText ==
    /\ call.fn = "get_text" /\ ~ret.done
    /\ ret' = Returned(get_text(call.element))
    /\ UNCHANGED <<mode, exists, files, pc, idx, results, errors, summary, all_data,
                   all_field_names, field_names, compliance, report, log, call, registry>>

NextText == GetText

SpecText == InitText /\ [][NextText]_vars

RECURSIVE KidParts(_)
\* the text and the tail of each child, in document order
KidParts(kids) ==
    IF Len(kids) = 0 THEN <<>>
    ELSE (IF Head(kids).text # "" THEN <<Head(kids).text>> ELSE <<>>)
         \o (IF Head(kids).tail # "" THEN <<Head(kids).tail>> ELSE <<>>)
         \o KidParts(Tail(kids))

\* the element's own text, then the text and tail of its children
TextParts(el) == (IF el.text # "" THEN <<el.text>> ELSE <<>>) \o KidParts(el.kids)

\* C22: get_text returns the cleaned concatenation of the element's own text
\* and of the text and tail of its children, in document order; the
\* children's text is in the result also when the element has own text, be
\* it whitespace only.
C22_NestedText ==
    (call.fn = "get_text" /\ ret.done) =>
        ret.value = clean_text(Join(" ", TextParts(call.element)))

(***************************************************************************)
(* Direct calls of _find and _find_any                                     *)
(***************************************************************************)
\* the (namespace, local name) steps the paths are made of
FindSteps == {<<GMD, "a">>, <<GMD, "b">>, <<GCO, "a">>}

\* the longest path and the longest list of paths
MaxPath == 2

\* the paths _find is called with
FindPaths == UNION { [1..n -> FindSteps] : n \in 0..MaxPath }

\* the lists of paths _find_any is called with
FindPathLists ==
    UNION { [1..n -> { <<>>, << <<GMD, "a">> >>, << <<GCO, "a">> >>,
                       << <<GMD, "a">>, <<GMD, "b">> >> }] : n \in 0..MaxPath }

\* what a child of the root looks like: its tag and the tag of its only
\* child, "" for none
KidShapes ==
    { <<_tag(step[1], step[2]), below>> :
      step \in FindSteps, below \in {"", _tag(GMD, "a"), _tag(GMD, "b")} }

\* the root with the children of the shapes given; the text of a child is
\* its position, the text of a grandchild that of its parent
FindTree(shapes) ==
    Elem(_tag(GMD, "MD_Metadata"), "",
         [i \in 1..Len(shapes) |->
            Elem(shapes[i][1], CharAt(Digits, i + 1),
                 IF shapes[i][2] = "" THEN <<>>
                 ELSE << Elem(shapes[i][2], CharAt(Digits, i + 1), <<>>) >>)])

\* the roots: None, and the trees with up to two children
FindRoots == {None} \cup UNION { { FindTree(sh) : sh \in [1..n -> KidShapes] } : n \in 0..2 }

InitFind ==
    /\ mode = "library"
    /\ exists = TRUE
    /\ files = <<>>
    /\ pc = "main"
    /\ idx = 1
    /\ results = EmptyDict
    /\ errors = <<>>
    /\ summary = <<>>
    /\ all_data = EmptyDict
    /\ all_field_names = {}
    /\ field_names = <<>>
    /\ compliance = <<>>
    /\ report = FALSE
    /\ log = <<>>
    /\ call \in { [fn |-> "_find", root |-> r, path |-> p] :
                  r \in FindRoots, p \in FindPaths }
           \cup { [fn |-> "_find_any", root |-> r, paths |-> ps] :
                  r \in FindRoots, ps \in FindPathLists }
    /\ ret = Pending
    /\ registry = Registries

\* _find(root, path) is called and returns
FindCall ==
    /\ call.fn = "_find" /\ ~ret.done
    /\ ret' = Returned(_find(call.root, call.path))
    /\ UNCHANGED <<mode, exists, files, pc, idx, results, errors, summary, all_data,
                   all_field_names, field_names, compliance, report, log, call, registry>>

\* _find_any(root, paths) is called and returns
FindAnyCall ==
    /\ call.fn = "_find_any" /\ ~ret.done
    /\ ret' = Returned(_find_any(call.root, call.paths))
    /\ UNCHANGED <<mode, exists, files, pc, idx, results, errors, summary, all_data,
                   all_field_names, field_names, compliance, report, log, call, registry>>

NextFind == FindCall \/ FindAnyCall

SpecFind == InitFind /\ [][NextFind]_vars

\* the first direct child of el with the tag, None when there is none
FirstChild(el, tag) ==
    IF \E i \in 1..Len(el.kids) : el.kids[i].tag = tag
    THEN el.kids[CHOOSE i \in 1..Len(el.kids) :
                    /\ el.kids[i].tag = tag
                    /\ \A j \in 1..(i - 1) : el.kids[j].tag # tag]
    ELSE None

RECURSIVE Descend(_, _)
\* one step at a time to the first matching child; None once a step fails
Descend(el, path) ==
    IF el = None THEN None
    ELSE IF Len(path) = 0 THEN el
    ELSE Descend(FirstChild(el, _tag(path[1][1], path[1][2])), Tail(path))

\* C23: _find returns the node reached by descending one step at a time to
\* the first direct child with the step's qualified name, never trying a
\* later sibling, and None when the root is None or a step has no match;
\* _find_any returns what the first path of the list that resolves gives,
\* and None when no path resolves.
C23_PathLocator ==
    /\ (call.fn = "_find" /\ ret.done) => ret.value = Descend(call.root, call.path)
    /\ (call.fn = "_find_any" /\ ret.done) =>
          \/ /\ \A k \in 1..Len(call.paths) : Descend(call.root, call.paths[k]) = None
             /\ ret.value = None
          \/ \E k \in 1..Len(call.paths) :
                /\ Descend(call.root, call.paths[k]) # None
                /\ \A j \in 1..(k - 1) : Descend(call.root, call.paths[j]) = None
                /\ ret.value = Descend(call.root, call.paths[k])

\* the first gmd:a has no gmd:b, the second has one: _find returned None
C23_Witness ==
    /\ call.fn = "_find" /\ ret = Returned(None)
    /\ call.root = FindTree(<< <<_tag(GMD, "a"), "">>, <<_tag(GMD, "a"), _tag(GMD, "b")>> >>)
    /\ call.path = << <<GMD, "a">>, <<GMD, "b">> >>

(***************************************************************************)
(* Direct calls of _build_by_num_from_arcgis                               *)
(***************************************************************************)
\* the length of the parts of the reference table that are given alone
MaxRows == 3

\* the name table of a codelist; an empty one for a name not in the registry
NameTable(codelist_name) ==
    IF codelist_name \in DOMAIN _CODELISTS THEN _CODELISTS[codelist_name].by_name
    ELSE EmptyDict

\* the calls: every codelist with the whole reference table, and every
\* codelist that a part of the table starts or ends with, with that part
BuildCalls ==
    { [fn |-> "_build_by_num_from_arcgis", codelist_name |-> c,
       by_name |-> NameTable(c), arcgis_coded_values |-> _ARCGIS_CODED_VALUES] :
      c \in DOMAIN _CODELISTS \cup {"MD_CharSetCd"} }
    \cup
    { [fn |-> "_build_by_num_from_arcgis",
       codelist_name |-> _ARCGIS_CODED_VALUES[i + at][1],
       by_name |-> NameTable(_ARCGIS_CODED_VALUES[i + at][1]),
       arcgis_coded_values |-> SubSeq(_ARCGIS_CODED_VALUES, i, i + MaxRows - 1)] :
      i \in 1..(Len(_ARCGIS_CODED_VALUES) - MaxRows + 1), at \in {0, MaxRows - 1} }

InitBuild ==
    /\ mode = "library"
    /\ exists = TRUE
    /\ files = <<>>
    /\ pc = "main"
    /\ idx = 1
    /\ results = EmptyDict
    /\ errors = <<>>
    /\ summary = <<>>
    /\ all_data = EmptyDict
    /\ all_field_names = {}
    /\ field_names = <<>>
    /\ compliance = <<>>
    /\ report = FALSE
    /\ log = <<>>
    /\ call \in BuildCalls
    /\ ret = Pending
    /\ registry = Registries

\* _build_by_num_from_arcgis(codelist_name, by_name, arcgis_coded_values)
\* is called and returns
BuildByNum ==
    /\ call.fn = "_build_by_num_from_arcgis" /\ ~ret.done
    /\ ret' = Returned(_build_by_num_from_arcgis(call.codelist_name, call.by_name,
                                                 call.arcgis_coded_values))
    /\ UNCHANGED <<mode, exists, files, pc, idx, results, errors, summary, all_data,
                   all_field_names, field_names, compliance, report, log, call, registry>>

NextBuild == BuildByNum

SpecBuild == InitBuild /\ [][NextBuild]_vars

\* the label the claim gives a standard code name under a name table
ClaimedLabel(std_code, by_name) ==
    IF _normalise_code(std_code) \in DOMAIN by_name
    THEN by_name[_normalise_code(std_code)]
    ELSE _format_code_as_label(std_code)

\* C24: the number table built for a codelist maps, for every row of the
\* table that belongs to the codelist, the integer value of the row's
\* numeric code to the name table's label of the normalised standard code
\* name when that key is in the name table and to the formatter's label of
\* the code name otherwise; the rows of other codelists add no entry.
C24_NumberTable ==
    (call.fn = "_build_by_num_from_arcgis" /\ ret.done) =>
        /\ \A k \in 1..Len(call.arcgis_coded_values) :
              \E row \in {call.arcgis_coded_values[k]} :
                 row[1] = call.codelist_name =>
                    /\ ParseInt(row[2]).ok
                    /\ ParseInt(row[2]).val \in DOMAIN ret.value
                    /\ ret.value[ParseInt(row[2]).val] = ClaimedLabel(row[3], call.by_name)
        /\ \A n \in DOMAIN ret.value :
              \E k \in 1..Len(call.arcgis_coded_values) :
                 /\ call.arcgis_coded_values[k][1] = call.codelist_name
                 /\ ParseInt(call.arcgis_coded_values[k][2]).val = n

\* the number table of MD_RestrictionCode built from the whole table gives
\* 5 the name table's label of 'license'
C24_Witness ==
    /\ call.fn = "_build_by_num_from_arcgis" /\ ret.done
    /\ call.codelist_name = "MD_RestrictionCode"
    /\ call.arcgis_coded_values = _ARCGIS_CODED_VALUES
    /\ \E k \in 1..Len(_ARCGIS_CODED_VALUES) :
          _ARCGIS_CODED_VALUES[k] = <<"MD_RestrictionCode", "005", "license">>
    /\ ret.value[5] = "Licence"

\* C25: every key of every codelist's name table is in normalised form
\* (_normalise_code(k) = k: lowercase, no hyphen, space or slash, no trailing
\* parenthetical), so that resolve_codelist finds the entry of every key.
C25_KeysNormalised ==
    \A c \in DOMAIN registry.codelists :
        \A k \in DOMAIN registry.codelists[c].by_name :
            /\ _normalise_code(k) = k
            /\ ResolveIn(k, c, registry.codelists) = registry.codelists[c].by_name[k]

(***************************************************************************)
(* resolve_codelist on the rows of the reference table                     *)
(***************************************************************************)
\* for every row, the call with its numeric code and the call with its
\* standard code name
RowCalls ==
    { [fn |-> "resolve_codelist", raw_value |-> _ARCGIS_CODED_VALUES[k][col],
       codelist_name |-> _ARCGIS_CODED_VALUES[k][1]] :
      k \in 1..Len(_ARCGIS_CODED_VALUES), col \in {2, 3} }

InitRows ==
    /\ mode = "library"
    /\ exists = TRUE
    /\ files = <<>>
    /\ pc = "main"
    /\ idx = 1
    /\ results = EmptyDict
    /\ errors = <<>>
    /\ summary = <<>>
    /\ all_data = EmptyDict
    /\ all_field_names = {}
    /\ field_names = <<>>
    /\ compliance = <<>>
    /\ report = FALSE
    /\ log = <<>>
    /\ call \in RowCalls
    /\ ret = Pending
    /\ registry = Registries

NextRows == ResolveCodelist

SpecRows == InitRows /\ [][NextRows]_vars

\* C26: for every row (codelist, numeric code, standard code name) of the
\* reference table, resolve_codelist returns the same label for the numeric
\* code and for the standard code name.
C26_NameAndNumberAgree ==
    (call.fn = "resolve_codelist" /\ ret.done) =>
        \A k \in 1..Len(_ARCGIS_CODED_VALUES) :
            \E row \in {_ARCGIS_CODED_VALUES[k]} :
                /\ (call.codelist_name = row[1] /\ call.raw_value = row[2]) =>
                      ret.value = resolve_codelist(row[3], row[1])
                /\ (call.codelist_name = row[1] /\ call.raw_value = row[3]) =>
                      ret.value = resolve_codelist(row[2], row[1])

(***************************************************************************)
(* Documents whose coded nodes carry 'value', 'codeListValue' and 'code'   *)
(***************************************************************************)
\* one attribute: absent, empty, or the text
OneAttr(name, text) == {<<>>, << <<name, "">> >>, << <<name, text>> >>}

\* the attributes of the coded nodes: each of the three absent, empty or a
\* code of every number table
CodedAttribs ==
    { v \o c \o g : v \in OneAttr("value", "002"), c \in OneAttr("codeListValue", "001"),
                    g \in OneAttr("code", "003") }

CodedDocs == { Doc("coded", attrib, {}) : attrib \in CodedAttribs }

InitCoded ==
    /\ mode = "loose"
    /\ exists = TRUE
    /\ files \in { << [name |-> FileNames[1], doc |-> d] >> : d \in CodedDocs }
    /\ pc = "main"
    /\ idx = 1
    /\ results = EmptyDict
    /\ errors = <<>>
    /\ summary = <<>>
    /\ all_data = EmptyDict
    /\ all_field_names = {}
    /\ field_names = <<>>
    /\ compliance = <<>>
    /\ report = FALSE
    /\ log = <<>>
    /\ call = NoCall
    /\ ret = Pending
    /\ registry = Registries

NextCoded ==
    \/ LooseMain
    \/ ProcessAllBegin
    \/ ProcessAllStep
    \/ ProcessAllReturn
    \/ LooseMainFinish

SpecCoded == InitCoded /\ [][NextCoded]_vars

\* the attribute is among attrib
HasAttr(attrib, name) == \E i \in 1..Len(attrib) : attrib[i][1] = name

\* the value of the attribute, "" when it is not among attrib
AttrOf(attrib, name) ==
    IF HasAttr(attrib, name)
    THEN attrib[CHOOSE i \in 1..Len(attrib) : attrib[i][1] = name][2]
    ELSE ""

\* the statements that resolve an attribute of a coded node
CodedSteps == SelectSeq(ExtractSteps, LAMBDA st : st.op \in {"code", "attr_code"})

\* the field holds the label of raw, and is missing when raw is empty
ResolvedFrom(fields, st, raw) == FieldGet(fields, st.name) = resolve_codelist(raw, st.arg)

\* C27: every coded field is resolved from the node's 'value' attribute when
\* the node has one, and from 'codeListValue' ('code' for the feature
\* geometry field) only when it has no 'value'; a node with both is
\* resolved from 'value'.
C27_ValuePreferred ==
    mode = "loose" =>
        \A i \in Handled :
            (files[i].doc.base = "coded" /\ files[i].name \in DOMAIN all_data) =>
                \E attrib \in {files[i].doc.edits} :
                \E fields \in {all_data[files[i].name]} :
                    \A k \in 1..Len(CodedSteps) :
                        ResolvedFrom(fields, CodedSteps[k],
                            IF HasAttr(attrib, "value") THEN AttrOf(attrib, "value")
                            ELSE IF CodedSteps[k].op = "attr_code"
                            THEN AttrOf(attrib, "code")
                            ELSE AttrOf(attrib, "codeListValue"))

\* C27 as it holds: every coded field read from 'value'/'codeListValue' is
\* resolved from 'value' when the node has a non-empty one and from
\* 'codeListValue' otherwise, a node with both non-empty is resolved from
\* 'value'; the feature geometry field is resolved from 'code' alone.
C27_NonEmptyValuePreferred ==
    mode = "loose" =>
        \A i \in Handled :
            (files[i].doc.base = "coded" /\ files[i].name \in DOMAIN all_data) =>
                \E attrib \in {files[i].doc.edits} :
                \E fields \in {all_data[files[i].name]} :
                    \A k \in 1..Len(CodedSteps) :
                        ResolvedFrom(fields, CodedSteps[k],
                            IF CodedSteps[k].op = "attr_code" THEN AttrOf(attrib, "code")
                            ELSE IF AttrOf(attrib, "value") # "" THEN AttrOf(attrib, "value")
                            ELSE AttrOf(attrib, "codeListValue"))

\* a document whose coded nodes carry value 002 and codeListValue 001 was
\* extracted and Access Constraints is the label of 2
C27_Witness ==
    /\ mode = "loose" /\ Len(files) = 1 /\ idx = 2
    /\ files[1].doc = Doc("coded", << <<"value", "002">>, <<"codeListValue", "001">> >>, {})
    /\ files[1].name \in DOMAIN all_data
    /\ FieldGet(all_data[files[1].name], "Access Constraints")
          = _CODELISTS["MD_RestrictionCode"].by_num[2]
    /\ _CODELISTS["MD_RestrictionCode"].by_num[2] # _CODELISTS["MD_RestrictionCode"].by_num[1]


\* ---------------------------------------------------------------------------
\* Thesaurus-qualified keyword groups (extract_all_fields, otherKeys)
\* ---------------------------------------------------------------------------

\* the largest number of otherKeys groups in a document
MaxGroups == 2

\* the thesaurus titles of a group: none, blank, or a title
GroupTitles == {"", " ", "GEMET"}

\* the keyword texts of a group, in order
GroupKeywords == {<<>>, <<"Soil">>, <<"", "Peat">>, <<"Soil", "Clay">>}

KeywordGroups == { [title |-> t, keywords |-> k] : t \in GroupTitles, k \in GroupKeywords }

\* the documents with up to MaxGroups otherKeys groups
GroupDocs ==
    UNION { { Doc("groups", groups, {}) : groups \in [1..n -> KeywordGroups] } :
            n \in 0..MaxGroups }

InitGroups ==
    /\ mode = "loose"
    /\ exists = TRUE
    /\ files \in { << [name |-> FileNames[1], doc |-> d] >> : d \in GroupDocs }
    /\ pc = "main"
    /\ idx = 1
    /\ results = EmptyDict
    /\ errors = <<>>
    /\ summary = <<>>
    /\ all_data = EmptyDict
    /\ all_field_names = {}
    /\ field_names = <<>>
    /\ compliance = <<>>
    /\ report = FALSE
    /\ log = <<>>
    /\ call = NoCall
    /\ ret = Pending
    /\ registry = Registries

NextGroups ==
    \/ LooseMain
    \/ ProcessAllBegin
    \/ ProcessAllStep
    \/ ProcessAllReturn
    \/ LooseMainFinish

SpecGroups == InitGroups /\ [][NextGroups]_vars

\* the non-empty keywords of a group
NonEmptyKeywords(group) ==
    SelectSeq([i \in 1..Len(group.keywords) |-> clean_text(group.keywords[i])],
              LAMBDA k : k # "")

\* the field a group is filed under
GroupField(group) ==
    IF clean_text(group.title) # ""
    THEN "Other Keywords (" \o clean_text(group.title) \o ")"
    ELSE "Other Keywords"

\* the groups that have a non-empty keyword, in document order
Contributing(groups) == SelectSeq(groups, LAMBDA g : Len(NonEmptyKeywords(g)) > 0)

\* the contributions of the groups filed under name, in document order
Contributions(groups, name) ==
    LET under == SelectSeq(Contributing(groups), LAMBDA g : GroupField(g) = name)
    IN  [i \in 1..Len(under) |-> Join(", ", NonEmptyKeywords(under[i]))]

\* the keys of the mapping that are other-keyword fields
OtherKeywordFields(fields) == {k \in FieldKeys(fields) : StartsWith(k, "Other Keywords")}

\* C28: each otherKeys group with a non-empty keyword contributes its
\* non-empty keywords joined by ', ' to 'Other Keywords (<title>)' when it has
\* a non-empty thesaurus title and to 'Other Keywords' otherwise; groups with
\* the same field name are folded in document order with ' | ', and a group
\* without a non-empty keyword creates no field.
C28_KeywordGroups ==
    mode = "loose" =>
        \A i \in Handled :
            (files[i].doc.base = "groups" /\ files[i].name \in DOMAIN all_data) =>
                \E groups \in {Contributing(files[i].doc.edits)} :
                \E fields \in {all_data[files[i].name]} :
                    /\ OtherKeywordFields(fields) =
                           {GroupField(groups[g]) : g \in 1..Len(groups)}
                    /\ \A g \in 1..Len(groups) :
                           FieldGet(fields, GroupField(groups[g])) =
                               Join(" | ", Contributions(groups, GroupField(groups[g])))

\* two titled groups of the same thesaurus and an untitled one have been
\* extracted: the titled ones share a field, the untitled one has its own
C28_Witness ==
    /\ mode = "loose"
    /\ Len(files) = 1
    /\ files[1].doc = Doc("groups",
                          << [title |-> "GEMET", keywords |-> <<"Soil", "Clay">>],
                             [title |-> "GEMET", keywords |-> <<"", "Peat">>] >>, {})
    /\ files[1].name \in DOMAIN all_data
    /\ FieldGet(all_data[files[1].name], "Other Keywords (GEMET)") = "Soil, Clay | Peat"
    /\ ~ HasField(all_data[files[1].name], "Other Keywords")


\* ---------------------------------------------------------------------------
\* The counts of the strict summary (compute_summary)
\* ---------------------------------------------------------------------------

\* targets of two mandatory, one conditional and two optional checks
CountedPaths ==
    << IdPath \o <<"abstract">>, <<"dateStamp">>, <<"referenceSystemInfo">>,
       <<"fileIdentifier">>, IdPath \o <<"purpose">> >>

\* every combination of treatments of the counted targets
CountDocs ==
    { Doc("gmd",
          Treat(t[1], CountedPaths[1]) \o Treat(t[2], CountedPaths[2])
              \o Treat(t[3], CountedPaths[3]) \o Treat(t[4], CountedPaths[4])
              \o Treat(t[5], CountedPaths[5]),
          {}) : t \in [1..5 -> Treatments] }

InitCounts ==
    /\ mode = "strict"
    /\ exists = TRUE
    /\ files \in { << [name |-> FileNames[1], doc |-> d] >> : d \in CountDocs }
    /\ pc = "main"
    /\ idx = 1
    /\ results = EmptyDict
    /\ errors = <<>>
    /\ summary = <<>>
    /\ all_data = EmptyDict
    /\ all_field_names = {}
    /\ field_names = <<>>
    /\ compliance = <<>>
    /\ report = FALSE
    /\ log = <<>>
    /\ call = NoCall
    /\ ret = Pending
    /\ registry = Registries

NextCounts ==
    \/ StrictMain
    \/ ProcessFolderBegin
    \/ ProcessFolderStep
    \/ ProcessFolderReturn
    \/ StrictMainFinish

SpecCounts == InitCounts /\ [][NextCounts]_vars

RECURSIVE Separators(_)
\* the number of ", " separators in s
Separators(s) ==
    IF Len(s) < 2 THEN 0
    ELSE IF StartsWith(s, ", ") THEN 1 + Separators(Drop(s, 2))
    ELSE Separators(Drop(s, 1))

\* the number of names in a missing list
Listed(s) == IF s = "" THEN 0 ELSE 1 + Separators(s)

\* the number of checks of the obligation that are Present in row
PresentOf(row, obligation) ==
    Cardinality({k \in 1..Len(_conformance_checks) :
                    /\ _conformance_checks[k].obligation = obligation
                    /\ row[_conformance_checks[k].name] = "Present"})

\* C29: in every row of the strict summary the missing count is the length of
\* the missing list, present mandatory plus missing count is the number of
\* mandatory checks of the catalog, and present conditional / optional are the
\* numbers of conditional / optional checks that are Present for the file.
C29_SummaryCounts ==
    (mode = "strict" /\ pc = "done" /\ report) =>
        \A i \in 1..Len(summary) :
            \E s \in {summary[i]} :
            \E row \in {results[summary[i].Filename]} :
                /\ s.MissingCount = Listed(s.MissingMandatory)
                /\ s.PresentMandatory + s.MissingCount = Len(MandatoryChecks)
                /\ s.PresentConditional = PresentOf(row, "conditional")
                /\ s.PresentOptional = PresentOf(row, "optional")

\* a summary row with missing mandatory checks and with conditional and
\* optional checks both Present and not Present
C29_Witness ==
    /\ mode = "strict" /\ pc = "done" /\ report
    /\ \E i \in 1..Len(summary) :
          /\ summary[i].MissingCount = 2
          /\ summary[i].PresentMandatory = Len(MandatoryChecks) - 2
          /\ summary[i].PresentConditional = 1
          /\ summary[i].PresentOptional = 6


\* ---------------------------------------------------------------------------
\* Blank mandatory values in the loose evaluator (compute_compliance)
\* ---------------------------------------------------------------------------

\* the 'value' attribute of the data language code: no node, empty, blank or
\* a code
DataLanguages == {"#none", "", " ", "eng"}

\* the 'value' attribute of the metadata language code
MetadataLanguages == {"#none", " ", "eng"}

LanguageDocs ==
    { Doc("language", <<d, m>>, {}) : d \in DataLanguages, m \in MetadataLanguages }

\* the folders of one to MaxFiles language documents
LanguageFolders ==
    UNION { { [i \in 1..n |-> [name |-> FileNames[i], doc |-> f[i]]] :
              f \in [1..n -> LanguageDocs] } : n \in 1..MaxFiles }

InitBlank ==
    /\ mode = "loose"
    /\ exists = TRUE
    /\ files \in LanguageFolders
    /\ pc = "main"
    /\ idx = 1
    /\ results = EmptyDict
    /\ errors = <<>>
    /\ summary = <<>>
    /\ all_data = EmptyDict
    /\ all_field_names = {}
    /\ field_names = <<>>
    /\ compliance = <<>>
    /\ report = FALSE
    /\ log = <<>>
    /\ call = NoCall
    /\ ret = Pending
    /\ registry = Registries

NextBlank ==
    \/ LooseMain
    \/ ProcessAllBegin
    \/ ProcessAllStep
    \/ ProcessAllReturn
    \/ LooseMainFinish

SpecBlank == InitBlank /\ [][NextBlank]_vars

RECURSIVE ListedNames(_)
\* the names of a missing list
ListedNames(s) ==
    IF s = "" THEN {}
    ELSE IF Contains(s, ", ")
         THEN {BeforeFirst(s, ",")} \cup ListedNames(Drop(s, IndexOf(s, ",") + 1))
         ELSE {s}

\* the mapping without its entry for name
WithoutEntry(fields, name) == SelectSeq(fields, LAMBDA e : e[1] # name)

\* the mandatory keys of the mapping whose value is empty or blank
BlankMandatory(fields) ==
    {k \in FieldKeys(fields) :
        get_field_obligation(k) = "mandatory" /\ Strip(FieldGet(fields, k)) = ""}

\* C30: a mandatory field that is in a file's mapping with an empty or
\* whitespace-only value is listed as missing by compute_compliance and makes
\* the file non-compliant, and the rows are those of the same data with the
\* entry removed.
C30_BlankIsMissing ==
    (mode = "loose" /\ pc = "done" /\ report) =>
        \A i \in 1..Len(compliance) :
            \E row \in {compliance[i]} :
            \E fields \in {all_data[compliance[i].Filename]} :
                \A k \in BlankMandatory(fields) :
                    /\ k \in ListedNames(row.MissingMandatory)
                    /\ row.Compliant = "No"
                    /\ compute_compliance(
                           [all_data EXCEPT ![row.Filename] = WithoutEntry(fields, k)],
                           field_names) = compliance

\* a file whose only flaw is the blank data language code has been reported
\* as non-compliant for that field
C30_Witness ==
    /\ mode = "loose" /\ pc = "done" /\ report
    /\ Len(files) = 1
    /\ files[1].doc = Doc("language", <<" ", "eng">>, {})
    /\ FieldGet(all_data[files[1].name], "Data Language") = " "
    /\ compliance[1].Compliant = "No"
    /\ compliance[1].MissingMandatory = "Data Language"

====
